---- MODULE Spec2Model ----
(***************************************************************************)
(* KakaoTalk automation bridge and its JSON-RPC client.                    *)
(*                                                                         *)
(* Two programs are modelled:                                              *)
(*   - the TypeScript RPC client (KakaoTalkRpcClient): child process,      *)
(*     pending-request table, timers, line handler, notification callback; *)
(*   - the Swift bridge (JsonRpcServer.run, the polling thread and the     *)
(*     shared standard output they both write to).                         *)
(* SpecClient runs the client against a child that may write any line,     *)
(* SpecBridge runs the bridge against any input, SpecE2E connects the two. *)
(***************************************************************************)
EXTENDS Integers, Sequences, FiniteSets, TLC

(***************************************************************************)
(* Bounds of the model.                                                    *)
(***************************************************************************)
\* request() calls that allocate an id
MaxRequests == 2
\* notifications written to a child's stdout
MaxNotifs == 2
\* child processes one client spawns
MaxSpawns == 2

\* input lines the dispatch loop of the bridge consumes
MaxInput == 3
\* write(2) calls one line written to the shared stdout may take
MaxChunks == 2
\* requests the client sends while the bridge is composed with it
MaxWireRequests == 1
\* largest unread count a chat-list row shows
MaxUnread == 2
\* rows of the chat list
MaxListLen == 2
\* messages readMessages finds in a chat window
MaxMsgs == 2
\* characters of a message text
MaxTextLen == 2
\* accounts of a configuration
MaxAccounts == 2

(***************************************************************************)
(* Program constants.                                                      *)
(***************************************************************************)
DEFAULT_KAKAOTALK_RPC_TIMEOUT_MS == 10000
\* enum RpcErrorCode
parseError == -32700
methodNotFound == -32601
appNotRunning == -32000
noAccessibility == -32001
windowNotFound == -32002
chatNotFound == -32003
inputNotFound == -32004
timeout == -32005

Ids == 1..MaxRequests
Procs == 1..MaxSpawns

\* timeoutMs values a caller passes to request(): none (the default), 0, a
\* negative value
TimeoutChoices == {DEFAULT_KAKAOTALK_RPC_TIMEOUT_MS, 0, 0 - 1}

VARIABLES
  \* ---- RPC client (KakaoTalkRpcClient) ----
  child,        \* this.child: 0 is null, otherwise the process spawned
  spawned,      \* number of processes spawned so far
  procState,    \* per process: "none", "running", "failed" (spawn failed,
                \* 'error' not yet emitted), "exited" ('close' not yet
                \* emitted), "closed"
  emitted,      \* notifications written to stdout so far, by any child
  pending,      \* this.pending: key -> [timer: BOOLEAN]
  timers,       \* request ids whose timeout timer is scheduled
  nextId,       \* this.nextId
  future,       \* per request id: state of the promise request() returned
  settleCalls,  \* per request id: calls of its resolve/reject so far
  removals,     \* per request id: pending.delete calls that removed its entry
  delivered,    \* notifications handed to onNotification, in call order
  closedResolved, \* this.closed has been resolved
  killTimer,    \* processes whose stop() kill timer is armed
  last,         \* the handler that ran last: [ev, line, key]
  \* ---- bridge process (JsonRpcServer.run, polling thread, stdout) ----
  stdin,        \* ids of the request lines written to the bridge, not yet read
  dpc,          \* dispatch loop: "read", "write" (inside writeJsonLine), "done"
  dresp,        \* the response the dispatch loop is writing / wrote last
  dleft,        \* write(2) calls the dispatch loop still needs for its line
  dof,          \* write(2) calls its current line takes in all
  ppc,          \* polling thread: "idle" (sleeping), "send", "write"
  pq,           \* notifications the current cycle still has to send
  pleft,        \* write(2) calls the poller still needs for its line
  pof,          \* write(2) calls its current line takes in all
  partial,      \* chunks on stdout since the last newline
  outLines,     \* complete lines on stdout not yet read by the client
  lastIntact,   \* the line completed last is one JSON value of one writer
  lastIn,       \* the input line the dispatch loop consumed last
  linesRead,    \* input lines consumed, blank ones included
  nonBlank,     \* non-blank input lines consumed
  responses,    \* lines the dispatch loop has finished writing
  lastOutcome,  \* how the handler call of the last iteration ended
  \* ---- polling thread in detail (pollingLoop, pollOnce) ----
  tracked,      \* previousUnreadCounts: chat name -> unread count last seen
  pollPc,       \* "sleep" (between cycles), "chats" (inside the for loop)
  cycleList,    \* what listChats returned in the current / last cycle
  idx,          \* position in the list of the chat the loop handles next
  pollLog,      \* what the last step of the loop did: opens, reads, lines
  failedNow,    \* chats whose messages could not be read in this cycle
  failedPrev,   \* the same for the cycle before
  lastRead,     \* what readMessages returned in the last step of the loop
  \* ---- chat room operations on the KakaoTalk UI ----
  windows,      \* titles of the chat windows that are open
  lastCall,     \* what happened last: an operation call and its arguments
  uiLog,        \* the UI queries and synthetic input of the last call
  opResult,     \* what the last call returned or threw
  opValue,      \* the chats, messages or status the last call returned
  screen,       \* what the accessibility tree shows under a window
  \* ---- the extension's send and probe functions ----
  sendCall,     \* the last call of sendMessageKakaoTalk and where it is
  probe,        \* the call of probeKakaoTalk and where it is
  monitor,      \* the call of monitorKakaoTalkProvider and where it is
  accountCall   \* a configuration and what the account functions made of it

clientVars == <<child, spawned, procState, pending,
                timers, nextId, future, settleCalls, removals, delivered,
                closedResolved, killTimer, last>>

serverVars == <<stdin, dpc, dresp, dleft, dof, ppc, pq, pleft, pof, partial,
                outLines, lastIntact, lastIn, linesRead, nonBlank, responses,
                lastOutcome>>

pollingVars ==
  <<tracked, pollPc, cycleList, idx, pollLog, failedNow, failedPrev, lastRead>>

uiVars == <<windows, lastCall, uiLog, opResult, opValue, screen>>

extVars == <<sendCall, probe, monitor, accountCall>>

detailVars == <<pollingVars, uiVars, extVars>>

bridgeVars == <<serverVars, detailVars>>

vars == <<clientVars, emitted, bridgeVars>>

(***************************************************************************)
(* Lines on the child's stdout, as JSON.parse and handleLine see them.     *)
(*   t      "blank": empty after trim; "junk": JSON.parse throws;          *)
(*          "obj": a JSON object                                           *)
(*   hasId  the object has an id that is neither undefined nor null        *)
(*   id     that id                                                        *)
(*   err    the object has a truthy error member                           *)
(*   method "none" (absent), "empty" (the empty string), "named"           *)
(*   n      payload of a notification: its emission number                 *)
(***************************************************************************)
BlankLine == [t |-> "blank", hasId |-> FALSE, id |-> 0, err |-> FALSE,
              method |-> "none", n |-> 0]
JunkLine == [t |-> "junk", hasId |-> FALSE, id |-> 0, err |-> FALSE,
             method |-> "none", n |-> 0]
ResponseLine(i, e) == [t |-> "obj", hasId |-> TRUE, id |-> i, err |-> e,
                       method |-> "none", n |-> 0]
NotificationLine(k) == [t |-> "obj", hasId |-> FALSE, id |-> 0, err |-> FALSE,
                        method |-> "named", n |-> k]
\* an object with an id and a method (a request echoed back)
IdMethodLine(i) == [t |-> "obj", hasId |-> TRUE, id |-> i, err |-> FALSE,
                    method |-> "named", n |-> 0]
\* an object with neither id nor method, or with an empty method string
NoIdLine(m) == [t |-> "obj", hasId |-> FALSE, id |-> 0, err |-> FALSE,
                method |-> m, n |-> 0]

\* what the handler that ran last was given
Event(e, l, k) == [ev |-> e, line |-> l, key |-> k, ms |-> 0]

\* a request() call: the id it allocated and the timeoutMs it was given
RequestEvent(k, timeoutMs) ==
  [ev |-> "request", line |-> BlankLine, key |-> k, ms |-> timeoutMs]

(***************************************************************************)
(* Helpers of the client.                                                  *)
(***************************************************************************)
EmptyPending == [k \in {} |-> [timer |-> FALSE]]

\* a delete that clears the whole table
PendingDeleteAll(p, key) == EmptyPending

\* Map.delete(key)
PendingDelete(p, key) == [k \in DOMAIN p \ {key} |-> p[k]]

\* Map.set(key, {resolve, reject, timer})
PendingSet(p, key, hasTimer) ==
  [k \in DOMAIN p \cup {key} |-> IF k = key THEN [timer |-> hasTimer] ELSE p[k]]

\* a request that always gets a timer
HasTimerAlways(timeoutMs) == TRUE

\* request(): a timer is created only for timeoutMs > 0
HasTimer(timeoutMs) == timeoutMs > 0

\* every parsed object taken for a response
IsResponseAlways(line) == TRUE

\* handleLine: the line is a response when its id is neither undefined nor null
IsResponse(line) == line.hasId

\* handleLine: the key looked up in the pending table
ResponseKey(line) == line.id

\* handleLine: a line without id is a notification when its method is truthy
HasMethod(line) == line.method = "named"

\* a response that leaves the timer of its request scheduled
ClearTimerForgotten(ts, p, key) == ts

\* handleLine: clearTimeout(pending.timer) when the entry has a timer
ClearTimer(ts, p, key) ==
  IF p[key].timer THEN ts \ {key} ELSE ts

\* a loop that stops after the first entry
FailAllVisitedFirst(p) ==
  IF DOMAIN p = {} THEN {}
  ELSE {CHOOSE k \in DOMAIN p : \A j \in DOMAIN p : k <= j}

\* failAll: the entries its loop over this.pending.entries() visits; a JS Map
\* iterator visits every entry even though the visited one is deleted
FailAllVisited(p) == DOMAIN p

\* A promise settles once: later resolve/reject calls change nothing
Settle(f, key, v) == IF f[key] = "unsettled" THEN [f EXCEPT ![key] = v] ELSE f

Bump(c, keys) == [k \in DOMAIN c |-> IF k \in keys THEN c[k] + 1 ELSE c[k]]

(***************************************************************************)
(* handleLine(line): the effect on the pending table, the timers, the      *)
(* promises and the notification callback.                                 *)
(***************************************************************************)
HandleLine(line) ==
  IF line.t # "obj"
  THEN \* JSON.parse throws: the line is ignored
       UNCHANGED <<pending, timers, future, settleCalls, removals, delivered>>
  ELSE IF IsResponse(line)
  THEN LET key == ResponseKey(line) IN
       IF key \notin DOMAIN pending
       THEN UNCHANGED <<pending, timers, future, settleCalls, removals, delivered>>
       ELSE /\ timers' = ClearTimer(timers, pending, key)
            /\ pending' = PendingDelete(pending, key)
            /\ removals' = Bump(removals, DOMAIN pending \ DOMAIN pending')
            /\ future' = Settle(future, key,
                                IF line.err THEN "rpc_error" ELSE "resolved")
            /\ settleCalls' = Bump(settleCalls, {key})
            /\ UNCHANGED delivered
  ELSE IF HasMethod(line)
  THEN /\ delivered' = Append(delivered, line.n)
       /\ UNCHANGED <<pending, timers, future, settleCalls, removals>>
  ELSE UNCHANGED <<pending, timers, future, settleCalls, removals, delivered>>

(***************************************************************************)
(* failAll(err): reject and delete every pending entry.                    *)
(***************************************************************************)
FailAll ==
  LET visited == FailAllVisited(pending) IN
  /\ timers' = timers \ {k \in visited : pending[k].timer}
  /\ future' = [k \in Ids |->
                  IF k \in visited /\ future[k] = "unsettled" THEN "exit"
                  ELSE future[k]]
  /\ settleCalls' = Bump(settleCalls, visited)
  /\ pending' = [k \in DOMAIN pending \ visited |-> pending[k]]
  /\ removals' = Bump(removals, visited)

(***************************************************************************)
(* Actions of the client.                                                  *)
(***************************************************************************)
\* start(): returns at once when a child exists, otherwise spawns one and
\* attaches the line reader and the error/close handlers.  spawn() itself
\* does not throw when the executable is missing: the child then emits 'error'.
StartClient ==
  /\ child = 0
  /\ spawned < MaxSpawns
  /\ \E ok \in BOOLEAN :
       /\ spawned' = spawned + 1
       /\ child' = spawned + 1
       /\ procState' = [procState EXCEPT ![spawned + 1] =
                          IF ok THEN "running" ELSE "failed"]
  /\ UNCHANGED <<emitted, pending, timers, nextId, future,
                 settleCalls, removals, delivered, closedResolved, killTimer>>
  /\ last' = Event("start", BlankLine, 0)

Start ==
  /\ StartClient
  /\ UNCHANGED bridgeVars

StartAgain ==
  /\ child # 0
  /\ UNCHANGED vars

\* request() with no child: throws before an id is allocated
RequestNotRunning ==
  /\ child = 0
  /\ UNCHANGED vars

\* a counter that is read and not advanced
NextIdSame(id) == id

\* const id = this.nextId++: the value the counter has afterwards
NextId(id) == id + 1

\* request(method, params, {timeoutMs}) with a child
RequestClient(timeoutMs) ==
  /\ child # 0
  /\ nextId <= MaxRequests
  /\ nextId' = NextId(nextId)
  /\ pending' = PendingSet(pending, nextId, HasTimer(timeoutMs))
  /\ timers' = IF HasTimer(timeoutMs) THEN timers \cup {nextId} ELSE timers
  /\ future' = [future EXCEPT ![nextId] = "unsettled"]
  /\ UNCHANGED <<child, spawned, procState, emitted,
                 settleCalls, removals, delivered, closedResolved, killTimer>>
  /\ last' = RequestEvent(nextId, timeoutMs)

Request(timeoutMs) ==
  /\ RequestClient(timeoutMs)
  /\ UNCHANGED bridgeVars

\* the timer callback of request(): delete the entry, reject with a timeout
TimerFire(key) ==
  /\ key \in timers
  /\ timers' = timers \ {key}
  /\ pending' = PendingDelete(pending, key)
  /\ removals' = Bump(removals, DOMAIN pending \ DOMAIN pending')
  /\ future' = Settle(future, key, "timeout")
  /\ settleCalls' = Bump(settleCalls, {key})
  /\ UNCHANGED <<child, spawned, procState, emitted, nextId,
                 delivered, closedResolved, killTimer>>
  /\ last' = Event("timer", BlankLine, key)
  /\ UNCHANGED bridgeVars

\* the lines a child process may write to its stdout
ChildLineChoices ==
  {BlankLine, JunkLine, NotificationLine(emitted + 1),
   NoIdLine("none"), NoIdLine("empty")}
  \cup {ResponseLine(i, e) : i \in Ids, e \in BOOLEAN}
  \cup {IdMethodLine(i) : i \in Ids}

\* The running child writes a line to its stdout and the reader of that child
\* emits it: reader.on("line") trims it, skips an empty line, otherwise calls
\* handleLine.  Lines written after stop() closed the reader are never seen.
ReadLineClient(p, line) ==
  /\ child = p
  /\ procState[p] = "running"
  /\ line.method = "named" /\ ~line.hasId => emitted < MaxNotifs
  /\ emitted' = IF line.method = "named" /\ ~line.hasId
                THEN emitted + 1 ELSE emitted
  /\ IF line.t = "blank"
     THEN UNCHANGED <<pending, timers, future, settleCalls, removals,
                      delivered>>
     ELSE HandleLine(line)
  /\ last' = Event("line", line, 0)
  /\ UNCHANGED <<child, spawned, procState, nextId, closedResolved, killTimer>>

ReadLine(p) ==
  /\ \E line \in ChildLineChoices : ReadLineClient(p, line)
  /\ UNCHANGED bridgeVars

\* the child process ends (stdin closed, crash, signal)
ChildExit(p) ==
  /\ procState[p] = "running"
  /\ procState' = [procState EXCEPT ![p] = "exited"]
  /\ UNCHANGED <<child, spawned, emitted, pending, timers, nextId,
                 future, settleCalls, removals, delivered, closedResolved,
                 killTimer>>
  /\ last' = Event("exit", BlankLine, 0)
  /\ UNCHANGED bridgeVars

\* child.on("error"): failAll(err), closedResolve
ErrorEvent(p) ==
  /\ procState[p] = "failed"
  /\ procState' = [procState EXCEPT ![p] = "exited"]
  /\ FailAll
  /\ closedResolved' = TRUE
  /\ UNCHANGED <<child, spawned, emitted, nextId, delivered, killTimer>>
  /\ last' = Event("error", BlankLine, 0)
  /\ UNCHANGED bridgeVars

\* child.on("close"): failAll(err) on either branch, closedResolve.  'close'
\* follows the end of the child's stdout.
CloseEvent(p) ==
  /\ procState[p] = "exited"
  /\ procState' = [procState EXCEPT ![p] = "closed"]
  /\ FailAll
  /\ closedResolved' = TRUE
  /\ UNCHANGED <<child, spawned, emitted, nextId, delivered,
                 killTimer>>
  /\ last' = Event("close", BlankLine, 0)
  /\ UNCHANGED bridgeVars

\* stop(): close the reader, end stdin, forget the child, arm the kill timer
StopClient ==
  /\ child # 0
  /\ child' = 0
  /\ killTimer' = killTimer \cup {child}
  /\ UNCHANGED <<spawned, procState, emitted, pending,
                 timers, nextId, future, settleCalls, removals, delivered,
                 closedResolved>>
  /\ last' = Event("stop", BlankLine, 0)

Stop ==
  /\ StopClient
  /\ UNCHANGED bridgeVars

StopNoChild ==
  /\ child = 0
  /\ UNCHANGED vars

\* a signal that is never delivered
KillIgnored(state) == state

\* child.kill("SIGTERM"): a process that still runs is terminated
Kill(state) == IF state = "running" THEN "exited" ELSE state

\* stop(): the children whose stop() call is still suspended in Promise.race,
\* which this.closed or the 500 ms timer ends
StopAwaiting == IF closedResolved THEN {} ELSE killTimer

\* the 500 ms timer of stop(): child.kill("SIGTERM") unless already killed
KillTimerFire(p) ==
  /\ p \in killTimer
  /\ killTimer' = killTimer \ {p}
  /\ procState' = [procState EXCEPT ![p] = Kill(procState[p])]
  /\ UNCHANGED <<child, spawned, emitted, pending, timers, nextId,
                 future, settleCalls, removals, delivered, closedResolved>>
  /\ last' = Event("kill", BlankLine, 0)
  /\ UNCHANGED bridgeVars

ClientInit ==
  /\ child = 0
  /\ spawned = 0
  /\ procState = [p \in Procs |-> "none"]
  /\ emitted = 0
  /\ pending = EmptyPending
  /\ timers = {}
  /\ nextId = 1
  /\ future = [k \in Ids |-> "unsent"]
  /\ settleCalls = [k \in Ids |-> 0]
  /\ removals = [k \in Ids |-> 0]
  /\ delivered = <<>>
  /\ closedResolved = FALSE
  /\ killTimer = {}
  /\ last = Event("init", BlankLine, 0)

ClientNext ==
  \/ Start
  \/ StartAgain
  \/ RequestNotRunning
  \/ \E t \in TimeoutChoices : Request(t)
  \/ \E k \in Ids : TimerFire(k)
  \/ \E p \in Procs : ReadLine(p)
  \/ \E p \in Procs : ChildExit(p)
  \/ \E p \in Procs : ErrorEvent(p)
  \/ \E p \in Procs : CloseEvent(p)
  \/ Stop
  \/ StopNoChild
  \/ \E p \in Procs : KillTimerFire(p)

(***************************************************************************)
(* The bridge: input lines as JsonRpcServer.run classifies them.           *)
(*   kind      "blank": empty after trimming; "malformed": not JSON;       *)
(*             "nonobject": JSON that is no dictionary; "object"           *)
(*   hasId     the object has an id that casts to Int                      *)
(*   hasMethod the object has a method that casts to String                *)
(***************************************************************************)
InLine(k, hi, i, hm, m) ==
  [kind |-> k, hasId |-> hi, id |-> i, hasMethod |-> hm, method |-> m]
InNone == InLine("none", FALSE, 0, FALSE, "")
InBlank == InLine("blank", FALSE, 0, FALSE, "")
InMalformed == InLine("malformed", FALSE, 0, FALSE, "")
InNonObject == InLine("nonobject", FALSE, 0, FALSE, "")
InRequest(i, m) == InLine("object", TRUE, i, TRUE, m)

\* the methods main.swift registers
Registered ==
  {"check_status", "list_chats", "open_chat", "read_messages", "send_message"}

\* method names a request may carry
Methods == Registered \cup {"no_such_method"}

\* method names the requests of the client carry
RequestedMethods == {"check_status", "list_chats"}

\* the lines a parent process may write to the stdin of the bridge
InputChoices ==
  {InBlank, InMalformed, InNonObject,
   InLine("object", FALSE, 0, FALSE, ""),
   InLine("object", FALSE, 0, TRUE, "list_chats")}
  \cup {InLine("object", TRUE, i, FALSE, "") : i \in Ids}
  \cup {InRequest(i, m) : i \in Ids, m \in Methods}

\* a response dictionary; NoResponse stands for "nothing written yet"
Response(hi, i, r, e, c) ==
  [hasId |-> hi, id |-> i, result |-> r, error |-> e, code |-> c]
NoResponse == Response(FALSE, 0, FALSE, FALSE, 0)
rpcSuccessResponse(i) == Response(TRUE, i, TRUE, FALSE, 0)
rpcErrorResponse(i, c) == Response(TRUE, i, FALSE, TRUE, c)
rpcParseErrorResponse == Response(FALSE, 0, FALSE, TRUE, parseError)

\* how a handler call ends: a result, a thrown RpcMethodError, any other Error
Outcome(k, c) == [k |-> k, code |-> c]
NoOutcome == Outcome("none", 0)

\* the RpcMethodError codes each registered handler throws
TypedErrors(method) ==
  CASE method = "check_status" -> {}
    [] method = "list_chats" -> {windowNotFound}
    [] method = "open_chat" -> {chatNotFound, timeout}
    [] method = "read_messages" -> {windowNotFound}
    [] method = "send_message" ->
         {inputNotFound, chatNotFound, windowNotFound, timeout}
    [] OTHER -> {}

\* RpcMethodHandler is ([String: Any]) throws -> Any: run() provides for a
\* handler that returns, throws RpcMethodError, or throws another Error
HandlerOutcomes(method) ==
  {Outcome("result", 0), Outcome("untyped", 0)}
  \cup {Outcome("typed", c) : c \in TypedErrors(method)}

\* a loop that skips no line
IsBlankNever(line) == FALSE

\* run(): trimmed.isEmpty
IsBlank(line) == line.kind = "blank"

\* run(): JSONSerialization.jsonObject(with:) as? [String: Any]
ParsesAsObject(line) == line.kind = "object"

\* a request built from any object with an integer id
RpcRequestFromIdOnly(line) == line.hasId

\* RpcRequest.from: id casts to Int and method casts to String
RpcRequestFrom(line) == line.hasId /\ line.hasMethod

\* a table with an entry for every name
HasHandlerAny(line) == TRUE

\* run(): handlers[request.method] is not nil
HasHandler(line) == line.method \in Registered

\* run(): the code of the response to an error that is no RpcMethodError
UntypedErrorCode == appNotRunning

\* run(): the handler is invoked
HandlerRuns(line) ==
  ~IsBlank(line) /\ ParsesAsObject(line) /\ RpcRequestFrom(line)
  /\ HasHandler(line)

\* run(): the dictionary handed to writeJsonLine for a non-blank line
Reply(line, outcome) ==
  IF ~ParsesAsObject(line) THEN rpcParseErrorResponse
  ELSE IF ~RpcRequestFrom(line) THEN rpcParseErrorResponse
  ELSE IF ~HasHandler(line) THEN rpcErrorResponse(line.id, methodNotFound)
  ELSE IF outcome.k = "result" THEN rpcSuccessResponse(line.id)
  ELSE IF outcome.k = "typed" THEN rpcErrorResponse(line.id, outcome.code)
  ELSE rpcErrorResponse(line.id, UntypedErrorCode)

(***************************************************************************)
(* The shared stdout.  FileHandle.standardOutput.write is called by both   *)
(* threads without a lock; a line goes out in one write(2) call or, when   *)
(* the pipe takes only part of it, in several, and the other thread may    *)
(* write in between.  The newline is the last byte of the last chunk.      *)
(***************************************************************************)
Chunk(w, i, n) == [w |-> w, i |-> i, of |-> n]

\* the chunks between two newlines are all the chunks of one write
Intact(line) ==
  \A j \in 1..Len(line) :
    line[j].w = line[1].w /\ line[j].i = j /\ line[j].of = Len(line)

\* a response as the client parses it
ResponseWire(r) ==
  [t |-> "obj", hasId |-> r.hasId, id |-> r.id, err |-> r.error,
   method |-> "none", n |-> 0]

\* what the client finds on a completed line
Wire(line, content) == IF Intact(line) THEN content ELSE JunkLine

\* the bridge runs: as a child of the client when attached, by itself otherwise
BridgeRuns(attached) ==
  /\ dpc # "done"
  /\ attached => child # 0 /\ procState[child] = "running"

pollerVars == <<ppc, pq, pleft, pof>>
dispatchVars == <<dpc, dresp, dleft, dof>>
historyVars == <<lastIn, linesRead, nonBlank, lastOutcome>>

\* a loop that reads on while a response is being written
AtLoopTopOrWriting(pc) == pc # "done"

\* while let line = readStdinLine(): the loop reads at the top of an
\* iteration only, after the send* call of the iteration before has returned
AtLoopTop(pc) == pc = "read"

\* one iteration of run() on `line`, up to the call of writeJsonLine
Dispatch(line, attached) ==
  /\ BridgeRuns(attached)
  /\ AtLoopTop(dpc)
  /\ linesRead < MaxInput
  /\ linesRead' = linesRead + 1
  /\ lastIn' = line
  /\ nonBlank' = IF line.kind = "blank" THEN nonBlank ELSE nonBlank + 1
  /\ IF IsBlank(line)
     THEN /\ lastOutcome' = NoOutcome
          /\ UNCHANGED dispatchVars
     ELSE /\ \E outcome \in (IF HandlerRuns(line)
                              THEN HandlerOutcomes(line.method)
                              ELSE {NoOutcome}) :
               /\ lastOutcome' = outcome
               /\ dresp' = Reply(line, outcome)
          /\ \E n \in 1..MaxChunks : dleft' = n /\ dof' = n
          /\ dpc' = "write"
  /\ UNCHANGED <<pollerVars, partial, outLines, lastIntact, emitted,
                 responses>>

\* the loop reads a line a parent process wrote
DispatchInput ==
  /\ \E line \in InputChoices : Dispatch(line, FALSE)
  /\ UNCHANGED <<clientVars, stdin>>
  /\ UNCHANGED detailVars

\* the loop reads a request line the client wrote
DispatchRequest ==
  /\ stdin # <<>>
  /\ \E m \in RequestedMethods : Dispatch(InRequest(Head(stdin), m), TRUE)
  /\ stdin' = Tail(stdin)
  /\ UNCHANGED clientVars
  /\ UNCHANGED detailVars

\* readStdinLine() returns nil: run() returns and the process ends
StdinEOF ==
  /\ dpc = "read"
  /\ dpc' = "done"
  /\ UNCHANGED <<clientVars, emitted, stdin, dresp, dleft, dof, pollerVars,
                 partial, outLines, lastIntact, historyVars,
                 responses>>
  /\ UNCHANGED detailVars

\* one write(2) call of the dispatch loop inside writeJsonLine
DispatchWrite(attached) ==
  /\ BridgeRuns(attached)
  /\ dpc = "write"
  /\ LET line == Append(partial, Chunk("d", dof - dleft + 1, dof)) IN
     IF dleft = 1
     THEN /\ partial' = <<>>
          /\ lastIntact' = Intact(line)
          /\ outLines' = IF attached
                         THEN Append(outLines, Wire(line, ResponseWire(dresp)))
                         ELSE outLines
          /\ dpc' = "read"
          /\ responses' = responses + 1
     ELSE /\ partial' = line
          /\ UNCHANGED <<lastIntact, outLines, dpc, responses>>
  /\ dleft' = dleft - 1
  /\ UNCHANGED <<clientVars, emitted, stdin, dresp, dof, pollerVars,
                 historyVars>>
  /\ UNCHANGED detailVars

\* pollOnce: the cycle finds k new messages to report (handleNewMessages for
\* every chat whose unread count went up)
PollCycle(attached) ==
  /\ BridgeRuns(attached)
  /\ ppc = "idle"
  /\ \E k \in 1..(MaxNotifs - emitted) : pq' = k
  /\ ppc' = "send"
  /\ UNCHANGED <<clientVars, emitted, stdin, dispatchVars, pleft, pof, partial,
                 outLines, lastIntact, historyVars,
                 responses>>
  /\ UNCHANGED detailVars

\* handleNewMessages: sendNotification for the next message, up to the call
\* of writeJsonLine
PollSend(attached) ==
  /\ BridgeRuns(attached)
  /\ ppc = "send"
  /\ pq > 0
  /\ pq' = pq - 1
  /\ emitted' = emitted + 1
  /\ \E n \in 1..MaxChunks : pleft' = n /\ pof' = n
  /\ ppc' = "write"
  /\ UNCHANGED <<clientVars, stdin, dispatchVars, partial, outLines,
                 lastIntact, historyVars,
                 responses>>
  /\ UNCHANGED detailVars

\* one write(2) call of the polling thread inside writeJsonLine
PollWrite(attached) ==
  /\ BridgeRuns(attached)
  /\ ppc = "write"
  /\ LET line == Append(partial, Chunk("p", pof - pleft + 1, pof)) IN
     IF pleft = 1
     THEN /\ partial' = <<>>
          /\ lastIntact' = Intact(line)
          /\ outLines' = IF attached
                         THEN Append(outLines,
                                     Wire(line, NotificationLine(emitted)))
                         ELSE outLines
          /\ ppc' = IF pq > 0 THEN "send" ELSE "idle"
     ELSE /\ partial' = line
          /\ UNCHANGED <<lastIntact, outLines, ppc>>
  /\ UNCHANGED responses
  /\ pleft' = pleft - 1
  /\ UNCHANGED <<clientVars, emitted, stdin, dispatchVars, pq, pof,
                 historyVars>>
  /\ UNCHANGED detailVars

BridgeInit ==
  /\ stdin = <<>>
  /\ dpc = "read"
  /\ dresp = NoResponse
  /\ dleft = 0
  /\ dof = 0
  /\ ppc = "idle"
  /\ pq = 0
  /\ pleft = 0
  /\ pof = 0
  /\ partial = <<>>
  /\ outLines = <<>>
  /\ lastIntact = TRUE
  /\ lastIn = InNone
  /\ linesRead = 0
  /\ nonBlank = 0
  /\ responses = 0
  /\ lastOutcome = NoOutcome

(***************************************************************************)
(* The polling thread in detail: pollingLoop, pollOnce, handleNewMessages. *)
(***************************************************************************)
ChatNames == {"Alice", "Bob"}

\* ChatEntry as pollOnce uses it
ChatEntry(n, u) == [name |-> n, unreadCount |-> u]

ChatEntries == {ChatEntry(n, u) : n \in ChatNames, u \in 0..MaxUnread}

\* the lists listChats(limit: 50) may return; KakaoTalk may show two rows of
\* the same name
ChatLists == UNION {[1..k -> ChatEntries] : k \in 0..MaxListLen}

\* try? listChats(limit: 50): nil, or the list
ListFailure == [ok |-> FALSE, chats |-> <<>>]
ListResults ==
  {ListFailure} \cup {[ok |-> TRUE, chats |-> l] : l \in ChatLists}

\* try? readMessages(name:): nil, or n messages
NoRead == [ok |-> FALSE, n |-> 0 - 1]
ReadFailure == [ok |-> FALSE, n |-> 0]
ReadResults == {ReadFailure} \cup {[ok |-> TRUE, n |-> k] : k \in 0..MaxMsgs}

\* the i-th message, oldest first, of the window of chat c
Message(c, i) == [sender |-> c, text |-> i, time |-> i]
MessagesRead(c, n) == [i \in 1..n |-> Message(c, i)]

\* what the loop does to the UI and to stdout
Op(o, c) ==
  [op |-> o, chatName |-> c, sender |-> "", text |-> 0, time |-> 0]

\* sendNotification(method: "new_message", params: chatName, sender, text, time)
NewMessage(c, msg) ==
  [op |-> "new_message", chatName |-> c, sender |-> msg.sender,
   text |-> msg.text, time |-> msg.time]

\* every message read, whatever the delta
SuffixAll(msgs, k) == msgs

\* messages.suffix(newCount)
Suffix(msgs, k) ==
  LET n == Len(msgs)
      m == IF k < n THEN k ELSE n
  IN [i \in 1..m |-> msgs[n - m + i]]

\* previousUnreadCounts[chat.name] ?? 0
Previous(prev, name) == IF name \in DOMAIN prev THEN prev[name] ELSE 0

\* handleNewMessages(chatName:newCount:) given what readMessages returns
HandleNewMessages(name, newCount, read) ==
  IF ~read.ok
  THEN <<Op("open", name), Op("read", name)>>
  ELSE LET new == Suffix(MessagesRead(name, read.n), newCount) IN
       <<Op("open", name), Op("read", name)>>
       \o [i \in 1..Len(new) |-> NewMessage(name, new[i])]

\* previousUnreadCounts[chat.name] = current
SetTracked(prev, name, current) ==
  [n \in DOMAIN prev \cup {name} |-> IF n = name THEN current ELSE prev[n]]

\* a cycle that keeps the entries of vanished chats
PruneNothing(prev, chats) == prev

\* pollOnce: removeValue(forKey:) for every key not among the current names
Prune(prev, chats) ==
  [n \in DOMAIN prev \cap {chats[i].name : i \in 1..Len(chats)} |-> prev[n]]

EmptyTracked == [n \in {} |-> 0]

\* a failed list read that forgets all counts
TrackedReset(prev) == EmptyTracked

\* pollOnce: guard let chats = try? listChats(limit: 50) else { return }
TrackedAfterFailedList(prev) == prev

\* pollingLoop wakes up and pollOnce reads the chat list
PollList ==
  /\ pollPc = "sleep"
  /\ \E r \in ListResults :
       /\ cycleList' = r
       /\ IF r.ok
          THEN /\ pollPc' = "chats"
               /\ tracked' = tracked
          ELSE /\ pollPc' = "sleep"
               /\ tracked' = TrackedAfterFailedList(tracked)
  /\ idx' = 1
  /\ pollLog' = <<>>
  /\ lastRead' = NoRead
  /\ failedPrev' = failedNow
  /\ failedNow' = {}
  /\ UNCHANGED <<clientVars, emitted, serverVars, uiVars, extVars>>

\* pollOnce: one iteration of the loop over the chats
PollChat ==
  /\ pollPc = "chats"
  /\ idx <= Len(cycleList.chats)
  /\ LET chat == cycleList.chats[idx]
         previous == Previous(tracked, chat.name)
         current == chat.unreadCount
     IN /\ IF current > previous
           THEN \E read \in ReadResults :
                  /\ lastRead' = read
                  /\ pollLog' =
                       HandleNewMessages(chat.name, current - previous, read)
                  /\ failedNow' = IF read.ok THEN failedNow
                                  ELSE failedNow \cup {chat}
           ELSE /\ lastRead' = NoRead
                /\ pollLog' = <<>>
                /\ failedNow' = failedNow
        /\ tracked' = SetTracked(tracked, chat.name, current)
  /\ idx' = idx + 1
  /\ UNCHANGED <<pollPc, cycleList, failedPrev>>
  /\ UNCHANGED <<clientVars, emitted, serverVars, uiVars, extVars>>

\* pollOnce: the loop is over, entries of vanished chats are removed, and
\* pollingLoop sleeps for the interval
PollPrune ==
  /\ pollPc = "chats"
  /\ idx > Len(cycleList.chats)
  /\ tracked' = Prune(tracked, cycleList.chats)
  /\ pollPc' = "sleep"
  /\ pollLog' = <<>>
  /\ lastRead' = NoRead
  /\ UNCHANGED <<cycleList, idx, failedNow, failedPrev>>
  /\ UNCHANGED <<clientVars, emitted, serverVars, uiVars, extVars>>

PollingInit ==
  /\ tracked = EmptyTracked
  /\ pollPc = "sleep"
  /\ cycleList = ListFailure
  /\ idx = 1
  /\ pollLog = <<>>
  /\ failedNow = {}
  /\ failedPrev = {}
  /\ lastRead = NoRead

PollingNext ==
  \/ PollList
  \/ PollChat
  \/ PollPrune

(***************************************************************************)
(* Chat room operations: openChat and sendMessage against the UI.          *)
(***************************************************************************)
\* characters of a text: a letter, a blank, a newline
Chars == {"a", " ", "\n"}

Texts == UNION {[1..k -> Chars] : k \in 0..MaxTextLen}

\* CharacterSet.whitespacesAndNewlines
IsSpace(ch) == ch \in {" ", "\n", "\t", "\r"}

RECURSIVE TrimLeft(_)
TrimLeft(t) ==
  IF Len(t) > 0 /\ IsSpace(t[1]) THEN TrimLeft(Tail(t)) ELSE t

RECURSIVE TrimRight(_)
TrimRight(t) ==
  IF Len(t) > 0 /\ IsSpace(t[Len(t)])
  THEN TrimRight(SubSeq(t, 1, Len(t) - 1)) ELSE t

\* a text taken as it is
TrimNothing(t) == t

\* text.trimmingCharacters(in: .whitespacesAndNewlines)
Trim(t) == TrimRight(TrimLeft(t))

\* windowWaitTimeout and windowPollInterval, in milliseconds
windowWaitTimeout == 5000
windowPollInterval == 200

\* the window checks that fit between the start of the wait and its deadline
WindowChecks == windowWaitTimeout \div windowPollInterval

\* a static text of a row, as its characters; a word counts as one character
Word(s) == <<s>>

\* the chat lists openChat is tried on: no rows; a row whose second text is
\* Alice; a row without texts before Alice's row
FindRowLists ==
  { <<>>,
    << <<Word("Bob"), Word("Alice")>> >>,
    << <<>>, <<Word("Alice"), Word("10:00")>> >> }

\* when the window shows up, counted in window checks; WindowChecks + 1 is
\* after the deadline
AppearChoices == {1, WindowChecks, WindowChecks + 1}

\* what the UI answers during one call: the rows of the chat list, whether
\* the row has a position and size, when the window appears after the
\* double-click, whether it is still there at the next lookup, whether it
\* has an input field; an answer that cannot be asked for after an earlier
\* one is left at its first value
UiAnswers ==
  {u \in [rows : FindRowLists, point : BOOLEAN, appearsAt : AppearChoices,
          stays : BOOLEAN, input : BOOLEAN] :
     /\ ~u.point => u.appearsAt = 1
     /\ (~u.point \/ u.appearsAt > WindowChecks) => u.stays
     /\ ~u.stays => u.input}

\* the result of an operation: its dictionary, or the RpcError it throws
\* an RpcError has a code, a message, which may end in a name, and an
\* optional data string (<<>> when nil)
Returned == [ok |-> TRUE, code |-> 0, message |-> "", about |-> "",
             data |-> <<>>]
Thrown(c, msg) == [ok |-> FALSE, code |-> c, message |-> msg, about |-> "",
                   data |-> <<>>]

\* RpcError.windowNotFound(name): the name goes into the message
WindowNotFound(name) ==
  [Thrown(windowNotFound, "Window not found: ") EXCEPT !.about = name]

\* what an operation did: its result, its UI steps, the windows after it
Done(r, log, wins) == [result |-> r, log |-> log, windows |-> wins]

\* a UI step of an operation: a lookup with its answer, or a synthetic input
Lookup(s, found) ==
  [step |-> s, found |-> found, input |-> FALSE, seen |-> <<>>]
Effect(s) == [step |-> s, found |-> TRUE, input |-> TRUE, seen |-> <<>>]

\* the lookup of the row in the chat list, with the rows it went through
RowLookup(rows, found) == [Lookup("find_row", found) EXCEPT !.seen = rows]

\* findChatRow(named:): the index of the first row whose first text is the
\* name, 0 when there is none
FindChatRow(name, rows) ==
  LET hits == {i \in 1..Len(rows) :
                 Len(rows[i]) > 0 /\ rows[i][1] = Word(name)} IN
  IF hits = {} THEN 0 ELSE CHOOSE i \in hits : \A j \in hits : i <= j

\* a loop condition that lets the deadline itself pass as not yet reached
DeadlinePassedLate(now, deadline) == now > deadline

\* the negation of the loop condition Date() < deadline
DeadlinePassed(now, deadline) == now >= deadline

\* waitForWindow(titled:): look for the window, sleep, until the deadline
RECURSIVE WaitForWindow(_, _, _, _, _)
WaitForWindow(present, appearsAt, now, deadline, log) ==
  IF DeadlinePassed(now, deadline) THEN [found |-> FALSE, log |-> log]
  ELSE IF present \/ appearsAt <= Len(log) + 1
  THEN [found |-> TRUE, log |-> Append(log, Lookup("window", TRUE))]
  ELSE WaitForWindow(present, appearsAt, now + windowPollInterval, deadline,
                     Append(log, Lookup("window", FALSE)))

\* openChat(name:)
OpenChat(name, wins, ui) ==
  LET row == FindChatRow(name, ui.rows) IN
  IF row = 0
  THEN Done(Thrown(chatNotFound, "chat not found"),
            <<RowLookup(ui.rows, FALSE)>>, wins)
  ELSE IF ~ui.point
  THEN Done(Thrown(chatNotFound, "chat not found"),
            <<RowLookup(ui.rows, TRUE), Lookup("center_point", FALSE)>>,
            wins)
  ELSE LET w == WaitForWindow(name \in wins, ui.appearsAt, 0,
                              windowWaitTimeout, <<>>)
           log == <<RowLookup(ui.rows, TRUE), Lookup("center_point", TRUE),
                    Effect("double_click")>> \o w.log
       IN IF ~w.found
          THEN Done(Thrown(timeout, "window did not appear"), log, wins)
          ELSE Done(Returned, log, wins \cup {name})

\* the focus, the value and the Enter key, with the Enter key sent first
TypeAndSendEnterFirst ==
  <<Effect("enter"), Effect("focus"), Effect("set_value")>>

\* the focus is set, the text is written, the Enter key is pressed
TypeAndSend == <<Effect("focus"), Effect("set_value"), Effect("enter")>>

\* sendMessage(name:text:)
SendMessage(name, text, wins, ui) ==
  IF Len(Trim(text)) = 0
  THEN Done(Thrown(inputNotFound, "Cannot send empty message"), <<>>, wins)
  ELSE LET first == <<Lookup("window", name \in wins)>>
           opened == IF name \in wins
                     THEN Done(Returned, first, wins)
                     ELSE LET o == OpenChat(name, wins, ui) IN
                          Done(o.result, first \o o.log, o.windows)
           present == IF name \in wins THEN TRUE ELSE ui.stays
           wins2 == IF present THEN opened.windows
                    ELSE opened.windows \ {name}
       IN IF ~opened.result.ok THEN opened
          ELSE IF ~present
          THEN Done(WindowNotFound(name),
                    opened.log \o <<Lookup("window", FALSE)>>, wins2)
          ELSE LET log == IF name \in wins THEN opened.log
                          ELSE opened.log \o <<Lookup("window", TRUE)>> IN
               IF ~ui.input
               THEN Done(Thrown(inputNotFound, "input not found"),
                         log \o <<Lookup("find_input", FALSE)>>, wins2)
               ELSE Done(Returned,
                         log \o <<Lookup("find_input", TRUE)>>
                             \o TypeAndSend, wins2)

Call(o, n, t) == [op |-> o, name |-> n, text |-> t]

\* openChat(name:) is called
OpenChatCall ==
  /\ \E name \in ChatNames, ui \in UiAnswers :
       LET d == OpenChat(name, windows, ui) IN
       /\ lastCall' = Call("open_chat", name, <<>>)
       /\ opResult' = d.result
       /\ uiLog' = d.log
       /\ windows' = d.windows
  /\ opValue' = <<>>
  /\ UNCHANGED <<clientVars, emitted, serverVars, pollingVars, screen, extVars>>

\* sendMessage(name:text:) is called
SendMessageCall ==
  /\ \E name \in ChatNames, text \in Texts, ui \in UiAnswers :
       LET d == SendMessage(name, text, windows, ui) IN
       /\ lastCall' = Call("send_message", name, text)
       /\ opResult' = d.result
       /\ uiLog' = d.log
       /\ windows' = d.windows
  /\ opValue' = <<>>
  /\ UNCHANGED <<clientVars, emitted, serverVars, pollingVars, screen, extVars>>

\* the user closes a chat window
WindowClosed ==
  /\ \E name \in windows :
       /\ windows' = windows \ {name}
       /\ lastCall' = Call("user_close", name, <<>>)
  /\ UNCHANGED <<uiLog, opResult, opValue, screen>>
  /\ UNCHANGED <<clientVars, emitted, serverVars, pollingVars, extVars>>

UiInit ==
  /\ windows = {}
  /\ lastCall = Call("none", "", <<>>)
  /\ uiLog = <<>>
  /\ opResult = Returned
  /\ opValue = <<>>
  /\ screen = [depth |-> "window", rows |-> <<>>]

OpsNext ==
  \/ OpenChatCall
  \/ SendMessageCall
  \/ WindowClosed

(***************************************************************************)
(* The extension: sendMessageKakaoTalk on a client the caller passes, and  *)
(* probeKakaoTalk on a client of its own.                                  *)
(***************************************************************************)
DEFAULT_PROBE_TIMEOUT_MS == 5000

\* the texts and targets a send is tried with
SendTexts == {t \in Texts : Len(t) <= 1}
SendTargets == {<<" ">>, <<"a">>}

\* a check that takes a text of white space for a text
IsBlankTextEmptyOnly(text) == Len(text) = 0

\* !text || !text.trim()
IsBlankText(text) == Len(Trim(text)) = 0

\* a call of sendMessageKakaoTalk: its arguments, where it is ("idle",
\* "awaiting" the request, "returned", "thrown"), the request it made (0:
\* none), the result it returned
SendState(pc, to, text, client, key, success, error) ==
  [pc |-> pc, to |-> to, text |-> text, client |-> client, key |-> key,
   success |-> success, error |-> error]

\* sendMessageKakaoTalk(to, text, opts) up to its first await
SendMessageKakaoTalk ==
  /\ sendCall.pc # "awaiting"
  /\ \E to \in SendTargets, text \in SendTexts, client \in BOOLEAN,
        timeoutMs \in {DEFAULT_KAKAOTALK_RPC_TIMEOUT_MS, 0} :
       IF IsBlankText(text)
       THEN /\ sendCall' = SendState("returned", to, text, client, 0, FALSE,
                                     "KakaoTalk send requires non-empty text")
            /\ UNCHANGED <<clientVars, emitted>>
       ELSE IF Len(Trim(to)) = 0
       THEN /\ sendCall' = SendState("thrown", to, text, client, 0, FALSE,
                                     "KakaoTalk target must not be empty")
            /\ UNCHANGED <<clientVars, emitted>>
       ELSE IF ~client
       THEN /\ sendCall' = SendState("returned", to, text, client, 0, FALSE,
                                     "KakaoTalk RPC client not provided")
            /\ UNCHANGED <<clientVars, emitted>>
       ELSE IF child = 0
       THEN /\ sendCall' = SendState("returned", to, text, client, 0, FALSE,
                                     "kakaotalk-bridge rpc not running")
            /\ UNCHANGED <<clientVars, emitted>>
       ELSE /\ RequestClient(timeoutMs)
            /\ sendCall' = SendState("awaiting", to, text, client, nextId,
                                     FALSE, "")
  /\ UNCHANGED <<serverVars, pollingVars, uiVars, probe, monitor,
                 accountCall>>

\* the request of the send is settled: success, or the message of the error
SendReturns ==
  /\ sendCall.pc = "awaiting"
  /\ future[sendCall.key] # "unsettled"
  /\ sendCall' = [sendCall EXCEPT
                    !.pc = "returned",
                    !.success = (future[sendCall.key] = "resolved"),
                    !.error = IF future[sendCall.key] = "resolved" THEN ""
                              ELSE future[sendCall.key]]
  /\ UNCHANGED <<clientVars, emitted, serverVars, pollingVars, uiVars, probe, monitor,
                 accountCall>>

\* a probe that returns from its catch block
AfterCatchReturns == "returned"

\* after try and catch the finally block runs
AfterCatch == "finally"

\* a call of probeKakaoTalk: where it is, its timeout, whether start() and
\* the request succeeded, the result it will return, the calls of stop()
ProbeState(pc, timeoutMs) ==
  [pc |-> pc, timeoutMs |-> timeoutMs, started |-> FALSE, key |-> 0,
   ok |-> FALSE, error |-> "", stops |-> 0]

\* probeKakaoTalk(params): the timeout, and a client of its own
ProbeCall ==
  /\ probe.pc = "idle"
  /\ child = 0 /\ spawned = 0 /\ nextId = 1
  /\ \E timeoutMs \in {DEFAULT_PROBE_TIMEOUT_MS, 0} :
       probe' = ProbeState("start", timeoutMs)
  /\ UNCHANGED <<clientVars, emitted, serverVars, pollingVars, uiVars,
                 sendCall, monitor, accountCall>>

\* await client.start(): the child is spawned and start() resolves
ProbeStart ==
  /\ probe.pc = "start"
  /\ StartClient
  /\ probe' = [probe EXCEPT !.pc = "request", !.started = TRUE]
  /\ UNCHANGED <<serverVars, pollingVars, uiVars, sendCall, monitor, accountCall>>

\* await client.start(): spawn throws, start() rejects
ProbeStartFails ==
  /\ probe.pc = "start"
  /\ probe' = [probe EXCEPT !.pc = AfterCatch, !.error = "spawn"]
  /\ UNCHANGED <<clientVars, emitted, serverVars, pollingVars, uiVars,
                 sendCall, monitor, accountCall>>

\* client.request("check_status", {}, {timeoutMs})
ProbeRequest ==
  /\ probe.pc = "request"
  /\ RequestClient(probe.timeoutMs)
  /\ probe' = [probe EXCEPT !.pc = "awaiting", !.key = nextId]
  /\ UNCHANGED <<serverVars, pollingVars, uiVars, sendCall, monitor, accountCall>>

\* the request is settled: the try block returns, or the catch block does
ProbeSettled ==
  /\ probe.pc = "awaiting"
  /\ future[probe.key] # "unsettled"
  /\ probe' = IF future[probe.key] = "resolved"
              THEN [probe EXCEPT !.pc = "finally", !.ok = TRUE]
              ELSE [probe EXCEPT !.pc = AfterCatch,
                                 !.error = future[probe.key]]
  /\ UNCHANGED <<clientVars, emitted, serverVars, pollingVars, uiVars,
                 sendCall, monitor, accountCall>>

\* finally: client.stop() is called
ProbeStop ==
  /\ probe.pc = "finally"
  /\ \/ StopClient
     \/ child = 0 /\ UNCHANGED <<clientVars, emitted>>
  /\ probe' = [probe EXCEPT !.pc = "stopping", !.stops = probe.stops + 1]
  /\ UNCHANGED <<serverVars, pollingVars, uiVars, sendCall, monitor, accountCall>>

\* stop() resolves and the probe returns
ProbeReturn ==
  /\ probe.pc = "stopping"
  /\ StopAwaiting = {}
  /\ probe' = [probe EXCEPT !.pc = "returned"]
  /\ UNCHANGED <<clientVars, emitted, serverVars, pollingVars, uiVars,
                 sendCall, monitor, accountCall>>

(***************************************************************************)
(* The extension's monitor: monitorKakaoTalkProvider on a client of its    *)
(* own.  A step is what runs between two turns of the event loop: the      *)
(* continuation of an await whose promise is already settled runs in the   *)
(* turn that settled it.                                                   *)
(***************************************************************************)
\* dmPolicy of the account configuration
DmPolicies == {"pairing", "allowlist", "open", "disabled"}

\* allowFrom of the account configuration
AllowLists == {{}, {<<"Alice">>}}

\* KakaoTalkRpcNotification: the method and the params the monitor reads
KakaoTalkRpcNotification(method, chatName, msg) ==
  [method |-> method, chatName |-> chatName, sender |-> msg.sender,
   text |-> msg.text]

NoNotification ==
  KakaoTalkRpcNotification("none", <<>>, [sender |-> <<>>, text |-> <<>>])

\* a call of monitorKakaoTalkProvider: where it is ("idle", "waiting" in
\* waitForClose, "returned", "thrown"), the account's policy, whether the
\* signal has fired and whether it had on entry, whether the abort listener
\* is registered, whether runtime.error was called for the bridge, the
\* notification received last and whether it went to the runtime
MonitorState(pc, policy, allowFrom) ==
  [pc |-> pc, dmPolicy |-> policy, allowFrom |-> allowFrom,
   aborted |-> FALSE, onEntry |-> FALSE, listening |-> FALSE,
   logged |-> FALSE, note |-> NoNotification, routed |-> FALSE]

(***************************************************************************)
(* Account resolution: the part of the configuration the enabled flags     *)
(* depend on.  A flag is "absent", "true" or "false".                      *)
(*   enabled      channels.kakaotalk.enabled                               *)
(*   hasAccounts  channels.kakaotalk.accounts is an object                 *)
(*   keys         Object.keys(accounts), in insertion order                *)
(*   flag         accounts[id].enabled for the ids among the keys          *)
(***************************************************************************)
DEFAULT_ACCOUNT_ID == "default"

Config(enabled, hasAccounts, keys, flag) ==
  [enabled |-> enabled, hasAccounts |-> hasAccounts, keys |-> keys,
   flag |-> flag]

AccountIds == {"", "a", "b", DEFAULT_ACCOUNT_ID}

NoConfig == Config("absent", FALSE, <<>>, [k \in AccountIds |-> "absent"])

\* a configuration and a call on it: the function called, its accountId
\* argument ("" for null), the enabled flag of the account it returned, the
\* ids of the accounts it returned
AccountCall(cfg, op, id, enabled, ids) ==
  [cfg |-> cfg, op |-> op, id |-> id, enabled |-> enabled, ids |-> ids]

\* listConfiguredAccountIds: Object.keys(accounts).filter(Boolean)
ListConfiguredAccountIds(cfg) ==
  IF ~cfg.hasAccounts THEN <<>>
  ELSE SelectSeq(cfg.keys, LAMBDA k : k # "")

\* a.localeCompare(b) < 0 for the ids used here
LocaleBefore(a, b) ==
  LET rank == [k \in AccountIds |->
                 CASE k = "" -> 0 [] k = "a" -> 1 [] k = "b" -> 2
                   [] k = DEFAULT_ACCOUNT_ID -> 3]
  IN rank[a] < rank[b]

\* ids.toSorted((a, b) => a.localeCompare(b))
RECURSIVE ToSorted(_)
ToSorted(ids) ==
  IF Len(ids) = 0 THEN <<>>
  ELSE LET rest == ToSorted(Tail(ids))
           before == SelectSeq(rest, LAMBDA k : LocaleBefore(k, ids[1]))
           after == SelectSeq(rest, LAMBDA k : ~LocaleBefore(k, ids[1]))
       IN before \o <<ids[1]>> \o after

\* listKakaoTalkAccountIds
ListKakaoTalkAccountIds(cfg) ==
  LET ids == ListConfiguredAccountIds(cfg) IN
  IF Len(ids) = 0 THEN <<DEFAULT_ACCOUNT_ID>> ELSE ToSorted(ids)

\* normalizeAccountId of the plugin SDK: "default" for null or an empty id,
\* the id itself for an id in normal form
NormalizeAccountId(id) == IF id = "" THEN DEFAULT_ACCOUNT_ID ELSE id

\* resolveAccountConfig(cfg, accountId), its enabled member
ResolveAccountConfig(cfg, id) ==
  IF ~cfg.hasAccounts THEN "absent"
  ELSE IF \E i \in 1..Len(cfg.keys) : cfg.keys[i] = id THEN cfg.flag[id]
  ELSE "absent"

\* a merge that keeps the channel's flag
MergedEnabledOfChannel(cfg, id) == cfg.enabled

\* mergeKakaoTalkAccountConfig: {...rest, ...account}, its enabled member
MergedEnabled(cfg, id) ==
  LET account == ResolveAccountConfig(cfg, id) IN
  IF account # "absent" THEN account ELSE cfg.enabled

\* resolveKakaoTalkAccount: accountId and enabled of the result
ResolveKakaoTalkAccount(cfg, accountId) ==
  LET id == NormalizeAccountId(accountId)
      baseEnabled == cfg.enabled
      accountEnabled == MergedEnabled(cfg, id) # "false"
  IN [accountId |-> id, enabled |-> baseEnabled # "false" /\ accountEnabled]

\* listEnabledKakaoTalkAccounts: the ids of the accounts it returns
ListEnabledKakaoTalkAccounts(cfg) ==
  LET ids == ListKakaoTalkAccountIds(cfg)
      accounts == [i \in 1..Len(ids) |-> ResolveKakaoTalkAccount(cfg, ids[i])]
      enabled == SelectSeq(accounts, LAMBDA account : account.enabled)
  IN [i \in 1..Len(enabled) |-> enabled[i].accountId]

\* resolveKakaoTalkAccount({cfg, accountId}) is called
ResolveAccountCall ==
  /\ \E id \in AccountIds :
       LET r == ResolveKakaoTalkAccount(accountCall.cfg, id) IN
       accountCall' = AccountCall(accountCall.cfg, "resolve", id, r.enabled,
                                  <<r.accountId>>)
  /\ UNCHANGED <<clientVars, emitted, serverVars, pollingVars, uiVars,
                 sendCall, probe, monitor>>

\* listEnabledKakaoTalkAccounts(cfg) is called
ListEnabledCall ==
  /\ accountCall' = AccountCall(accountCall.cfg, "list_enabled", "", FALSE,
                                ListEnabledKakaoTalkAccounts(accountCall.cfg))
  /\ UNCHANGED <<clientVars, emitted, serverVars, pollingVars, uiVars,
                 sendCall, probe, monitor>>

AccountsNext ==
  \/ ResolveAccountCall
  \/ ListEnabledCall

\* no function of the extension has been called
CallsInit ==
  /\ sendCall = SendState("idle", <<>>, <<>>, FALSE, 0, FALSE, "")
  /\ probe = ProbeState("idle", 0)
  /\ monitor = MonitorState("idle", "pairing", {})

ExtInit ==
  /\ CallsInit
  /\ accountCall = AccountCall(NoConfig, "none", "", FALSE, <<>>)

\* the configurations: up to MaxAccounts keys, no key twice, a flag for each
Flags == {"absent", "true", "false"}

KeyLists ==
  {keys \in UNION {[1..n -> AccountIds] : n \in 0..MaxAccounts} :
     \A i, j \in 1..Len(keys) : i # j => keys[i] # keys[j]}

Configs ==
  {c \in {Config(e, h, keys, flag) :
            e \in Flags, h \in BOOLEAN, keys \in KeyLists,
            flag \in [AccountIds -> Flags]} :
     /\ ~c.hasAccounts => Len(c.keys) = 0
     /\ \A k \in AccountIds :
          c.flag[k] # "absent" => \E i \in 1..Len(c.keys) : c.keys[i] = k}

AccountsInit ==
  /\ ClientInit /\ BridgeInit /\ PollingInit /\ UiInit /\ CallsInit
  /\ \E cfg \in Configs :
       accountCall = AccountCall(cfg, "none", "", FALSE, <<>>)

\* what happens to the child and the timers of a client while a call waits
ClientEvents ==
  \/ \E k \in Ids : TimerFire(k)
  \/ \E p \in Procs : ReadLine(p)
  \/ \E p \in Procs : ChildExit(p)
  \/ \E p \in Procs : ErrorEvent(p)
  \/ \E p \in Procs : CloseEvent(p)

SendNext ==
  \/ Start
  \/ ClientEvents
  \/ SendMessageKakaoTalk
  \/ SendReturns

ProbeNext ==
  \/ ProbeCall
  \/ ProbeStart
  \/ ProbeStartFails
  \/ ProbeRequest
  \/ ProbeSettled
  \/ ProbeStop
  \/ ProbeReturn
  \/ ClientEvents
  \/ \E p \in Procs : KillTimerFire(p)

Init == ClientInit /\ BridgeInit /\ PollingInit /\ UiInit /\ ExtInit

SpecPoll == Init /\ [][PollingNext]_vars

SpecOps == Init /\ [][OpsNext]_vars

SpecSend == Init /\ [][SendNext]_vars

SpecProbe == Init /\ [][ProbeNext]_vars

SpecAccounts == AccountsInit /\ [][AccountsNext]_vars

(***************************************************************************)
(* Queries: listChats, readMessages and checkKakaoTalkStatus read the      *)
(* accessibility tree and change nothing.                                  *)
(***************************************************************************)
MaxRows == 2

defaultChatLimit == 50

\* the title of the main window, the word KakaoTalk in Korean letters
MainWindowTitle == "KakaoTalk"

\* the decimal digits; Digit[d + 1] is the character of d
Digit == <<"0", "1", "2", "3", "4", "5", "6", "7", "8", "9">>

\* String(n) for n >= 0
RECURSIVE Digits(_)
Digits(n) ==
  IF n < 10 THEN <<Digit[n + 1]>>
  ELSE Append(Digits(n \div 10), Digit[(n % 10) + 1])

\* the number a sequence of digit characters stands for
RECURSIVE DigitsValue(_, _)
DigitsValue(t, acc) ==
  IF t = <<>> THEN acc
  ELSE DigitsValue(Tail(t),
                   acc * 10 + (CHOOSE d \in 0..9 : Digit[d + 1] = t[1]))

\* Int(text): digits after an optional sign, nil for anything else
NoInt == [some |-> FALSE, v |-> 0]
ParseInt(t) ==
  LET body == IF Len(t) > 0 /\ t[1] \in {"+", "-"} THEN Tail(t) ELSE t IN
  IF Len(body) = 0
       \/ \E i \in 1..Len(body) : \A d \in 1..10 : Digit[d] # body[i]
  THEN NoInt
  ELSE [some |-> TRUE,
        v |-> IF t[1] = "-" THEN 0 - DigitsValue(body, 0)
              ELSE DigitsValue(body, 0)]

\* text.trimmingCharacters(in: .whitespaces)
TrimWhitespaces(t) ==
  LET keep == {i \in 1..Len(t) : t[i] \notin {" ", "\t"}} IN
  IF keep = {} THEN <<>>
  ELSE SubSeq(t, CHOOSE i \in keep : \A j \in keep : i <= j,
              CHOOSE i \in keep : \A j \in keep : j <= i)

\* parseChatRow for a row with texts: the first text is the name, the second
\* the time; the first later text that is a number above 0 is the unread
\* count, and when it is the second text the third one is the time
ParseChatRow(texts) ==
  LET n == Len(texts)
      count(i) == ParseInt(TrimWhitespaces(texts[i]))
      nums == {i \in 2..n : count(i).some /\ count(i).v > 0}
      hit == IF nums = {} THEN 0 ELSE CHOOSE i \in nums : \A j \in nums : i <= j
  IN [name |-> texts[1],
      lastMessageTime |-> IF hit = 2 /\ n >= 3 THEN texts[3]
                          ELSE IF n >= 2 THEN texts[2] ELSE <<>>,
      unreadCount |-> IF hit = 0 THEN 0 ELSE count(hit).v]

\* the limit taken as it is
EffectiveLimitRaw(limit) == limit

\* limit > 0 ? limit : defaultChatLimit
EffectiveLimit(limit) == IF limit > 0 THEN limit ELSE defaultChatLimit

\* what a query did: its result, its UI steps, the value it returned, the
\* windows after it
Got(r, log, v, wins) ==
  [result |-> r, log |-> log, value |-> v, windows |-> wins]

\* the rows with texts of a list, in their order: the rows a parser does
\* not return nil for
RowsWithTexts(rows) == SelectSeq(rows, LAMBDA r : Len(r) > 0)

\* the entries listChats appends for the rows it visits
ParsedChats(rows) ==
  LET full == RowsWithTexts(rows) IN
  [k \in 1..Len(full) |-> ParseChatRow(full[k])]

\* listChats(limit:)
ListChats(limit, wins, scr) ==
  IF MainWindowTitle \notin wins
  THEN Got(WindowNotFound(MainWindowTitle),
           <<Lookup("window", FALSE)>>, <<>>, wins)
  ELSE IF scr.depth = "window"
  THEN Got(Returned, <<Lookup("window", TRUE), Lookup("scroll_area", FALSE)>>,
           <<>>, wins)
  ELSE IF scr.depth = "scroll_area"
  THEN Got(Returned, <<Lookup("window", TRUE), Lookup("scroll_area", TRUE),
                       Lookup("table", FALSE)>>, <<>>, wins)
  ELSE LET l == EffectiveLimit(limit)
           first == SubSeq(scr.rows, 1,
                           IF l < Len(scr.rows) THEN l ELSE Len(scr.rows))
       IN Got(Returned, <<Lookup("window", TRUE), Lookup("scroll_area", TRUE),
                          Lookup("table", TRUE)>>,
              ParsedChats(first), wins)

\* texts.joined(separator: "\n")
RECURSIVE Joined(_)
Joined(texts) ==
  IF Len(texts) = 0 THEN <<>>
  ELSE IF Len(texts) = 1 THEN texts[1]
  ELSE texts[1] \o <<"\n">> \o Joined(Tail(texts))

\* looksLikeTime: at most 20 characters after trimming, with a colon or one
\* of the Korean words for before noon and after noon
LooksLikeTime(t) ==
  LET trimmed == TrimWhitespaces(t) IN
  /\ Len(trimmed) <= 20
  /\ \E i \in 1..Len(trimmed) : trimmed[i] \in {":", "ojeon", "ohu"}

\* parseMessageRow for a row with texts
ParseMessageRow(texts) ==
  LET n == Len(texts)
      times == {i \in 2..n : LooksLikeTime(texts[i])}
      timeIdx == IF times = {} THEN 0
                 ELSE CHOOSE i \in times : \A j \in times : j <= i
      endIdx == IF timeIdx > 2 THEN timeIdx - 1 ELSE n
  IN IF n = 1 THEN [sender |-> <<>>, text |-> texts[1], time |-> <<>>]
     ELSE IF n = 2
     THEN IF LooksLikeTime(texts[2])
          THEN [sender |-> <<>>, text |-> texts[1], time |-> texts[2]]
          ELSE [sender |-> texts[1], text |-> texts[2], time |-> <<>>]
     ELSE [sender |-> texts[1],
           text |-> Joined(SubSeq(texts, 2, endIdx)),
           time |-> IF timeIdx = 0 THEN <<>> ELSE texts[timeIdx]]

\* the Unicode scalar value of a character
CodePoint(ch) ==
  CASE ch = "\t" -> 9 [] ch = "\n" -> 10 [] ch = " " -> 32
    [] ch = ":" -> 58 [] ch = "a" -> 97
    [] ch = "ojeon" -> 50724 [] ch = "ohu" -> 50725
    [] OTHER -> 48 + (CHOOSE d \in 0..9 : Digit[d + 1] = ch)

\* a >= b for two strings: the order of the first character they differ in,
\* a string being above its proper prefixes
RECURSIVE StringGE(_, _)
StringGE(a, b) ==
  IF Len(b) = 0 THEN TRUE
  ELSE IF Len(a) = 0 THEN FALSE
  ELSE IF CodePoint(a[1]) # CodePoint(b[1])
  THEN CodePoint(a[1]) > CodePoint(b[1])
  ELSE StringGE(Tail(a), Tail(b))

\* the messages readMessages appends for the rows of the table
ParsedMessages(rows) ==
  LET full == RowsWithTexts(rows) IN
  [k \in 1..Len(full) |-> ParseMessageRow(full[k])]

\* a filter that keeps a message only when its time is at or after since
KeptBySinceTimed(msg, since) == StringGE(msg.time, since)

\* msg.time.isEmpty || msg.time >= since
KeptBySince(msg, since) == Len(msg.time) = 0 \/ StringGE(msg.time, since)

\* an optional string argument
Absent == [some |-> FALSE, v |-> <<>>]
Some(t) == [some |-> TRUE, v |-> t]

\* readMessages(name:since:) from the window on
MessagesBelow(since, wins, scr) ==
  IF scr.depth = "window"
  THEN Got(Returned, <<Lookup("window", TRUE), Lookup("scroll_area", FALSE)>>,
           <<>>, wins)
  ELSE IF scr.depth = "scroll_area"
  THEN Got(Returned, <<Lookup("window", TRUE), Lookup("scroll_area", TRUE),
                       Lookup("table", FALSE)>>, <<>>, wins)
  ELSE LET messages == ParsedMessages(scr.rows) IN
       Got(Returned, <<Lookup("window", TRUE), Lookup("scroll_area", TRUE),
                       Lookup("table", TRUE)>>,
           IF since.some /\ Len(since.v) > 0
           THEN SelectSeq(messages, LAMBDA msg : KeptBySince(msg, since.v))
           ELSE messages, wins)

\* a readMessages that opens the chat with a double-click when it has no
\* window
ReadMessagesOpening(name, since, wins, scr) ==
  IF name \notin wins
  THEN LET g == MessagesBelow(since, wins \cup {name}, scr) IN
       [g EXCEPT !.log = <<Lookup("window", FALSE), Effect("double_click")>>
                           \o g.log]
  ELSE MessagesBelow(since, wins, scr)

\* readMessages(name:since:)
ReadMessages(name, since, wins, scr) ==
  IF name \notin wins
  THEN Got(WindowNotFound(name), <<Lookup("window", FALSE)>>, <<>>, wins)
  ELSE MessagesBelow(since, wins, scr)

\* a status made of the three answers as they are
CheckStatusAllAsked(app, wins) ==
  LET hasMainWindow == MainWindowTitle \in wins IN
  Got(Returned,
      <<Lookup("running", app.running), Lookup("trusted", app.trusted),
        Lookup("window", hasMainWindow)>>,
      [running |-> app.running, accessible |-> app.trusted,
       mainWindow |-> hasMainWindow,
       message |-> IF app.running /\ app.trusted /\ hasMainWindow THEN <<>>
                   ELSE <<"KakaoTalk is not running">>], wins)

\* checkKakaoTalkStatus(): is the app running, is the permission granted,
\* is there a main window, each asked only when the one before it passed;
\* message is <<>> when nil
CheckStatus(app, wins) ==
  LET hasMainWindow == MainWindowTitle \in wins IN
  IF ~app.running
  THEN Got(Returned, <<Lookup("running", FALSE)>>,
           [running |-> FALSE, accessible |-> FALSE, mainWindow |-> FALSE,
            message |-> <<"KakaoTalk is not running">>], wins)
  ELSE IF ~app.trusted
  THEN Got(Returned, <<Lookup("running", TRUE), Lookup("trusted", FALSE)>>,
           [running |-> TRUE, accessible |-> FALSE, mainWindow |-> FALSE,
            message |-> <<"Accessibility permission not granted">>], wins)
  ELSE Got(Returned,
           <<Lookup("running", TRUE), Lookup("trusted", TRUE),
             Lookup("window", hasMainWindow)>>,
           [running |-> TRUE, accessible |-> TRUE,
            mainWindow |-> hasMainWindow,
            message |-> IF hasMainWindow THEN <<>>
                        ELSE <<"KakaoTalk main window not found">>], wins)

\* two times whose order as strings is not their order on the clock
T0905 == <<"9", ":", "0", "5">>
T1000 == <<"1", "0", ":", "0", "0">>

\* the rows of a table, each with the texts below it: none, a text, a name
\* and a text, a text and a time, a name with count and time, a name with
\* time and count, a name with a count of 0
RowKinds ==
  { <<>>,
    <<Word("hi")>>,
    <<Word("Bob"), Word("hi")>>,
    <<Word("hi"), T0905>>,
    <<Word("Alice"), <<"2">>, T1000>>,
    <<Word("Bob"), T0905, <<" ", "1", "2">>>>,
    <<Word("Alice"), <<"0">>, T1000>> }

\* a table of n rows: row i is named i, every third row has no texts
LongList(n) ==
  [i \in 1..n |-> IF i % 3 = 1 THEN <<>>
                  ELSE <<Digits(i), T1000, Digits(i % 3)>>]

RowLists ==
  UNION {[1..k -> RowKinds] : k \in 0..MaxRows}
    \cup {LongList(defaultChatLimit), LongList(defaultChatLimit + 1)}

\* what is below a window: the window only, a scroll area without table, or
\* a table with rows
Screens ==
  {[depth |-> d, rows |-> <<>>] : d \in {"window", "scroll_area"}}
    \cup {[depth |-> "table", rows |-> l] : l \in RowLists}

LimitChoices == (0 - 1)..MaxRows

SinceChoices == {Absent, Some(<<>>), Some(T0905), Some(T1000), Some(<<"1">>)}

\* the arguments and answers a query is called with: since for readMessages,
\* limit for listChats, what the system says about the app for the status
Args(since, limit, app) == [since |-> since, limit |-> limit, app |-> app]
NoArgs == Args(Absent, 0, [running |-> FALSE, trusted |-> FALSE])

\* listChats(limit:) is called
ListChatsCall ==
  /\ \E limit \in LimitChoices :
       LET g == ListChats(limit, windows, screen) IN
       /\ lastCall' = Call("list_chats", "", [NoArgs EXCEPT !.limit = limit])
       /\ opResult' = g.result
       /\ uiLog' = g.log
       /\ opValue' = g.value
       /\ windows' = g.windows
  /\ UNCHANGED screen
  /\ UNCHANGED <<clientVars, emitted, serverVars, pollingVars, extVars>>

\* readMessages(name:since:) is called
ReadMessagesCall ==
  /\ \E name \in ChatNames, since \in SinceChoices :
       LET g == ReadMessages(name, since, windows, screen) IN
       /\ lastCall' = Call("read_messages", name,
                            [NoArgs EXCEPT !.since = since])
       /\ opResult' = g.result
       /\ uiLog' = g.log
       /\ opValue' = g.value
       /\ windows' = g.windows
  /\ UNCHANGED screen
  /\ UNCHANGED <<clientVars, emitted, serverVars, pollingVars, extVars>>

\* checkKakaoTalkStatus() is called
CheckStatusCall ==
  /\ \E app \in [running : BOOLEAN, trusted : BOOLEAN] :
       LET g == CheckStatus(app, windows) IN
       /\ lastCall' = Call("check_status", "", [NoArgs EXCEPT !.app = app])
       /\ opResult' = g.result
       /\ uiLog' = g.log
       /\ opValue' = g.value
       /\ windows' = g.windows
  /\ UNCHANGED screen
  /\ UNCHANGED <<clientVars, emitted, serverVars, pollingVars, extVars>>

\* the queries start with any windows open and any table below them
QueryInit ==
  /\ ClientInit /\ BridgeInit /\ PollingInit /\ ExtInit
  /\ windows \in SUBSET (ChatNames \cup {MainWindowTitle})
  /\ screen \in Screens
  /\ lastCall = Call("none", "", NoArgs)
  /\ uiLog = <<>>
  /\ opResult = Returned
  /\ opValue = <<>>

QueryNext ==
  \/ ListChatsCall
  \/ ReadMessagesCall
  \/ CheckStatusCall

SpecQuery == QueryInit /\ [][QueryNext]_vars

(***************************************************************************)
(* The monitor's notifications and steps.                                  *)
(***************************************************************************)
\* the rows whose messages the polling loop sends: a text alone, a name and
\* a text, a text and a time, a name with a blank text and a time
MonitorRows ==
  { <<(<<"hi">>)>>,
    <<(<<"Bob">>), (<<"hi">>)>>,
    <<(<<"hi">>), (<<"9", ":", "0", "5">>)>>,
    <<(<<"Bob">>), (<<" ">>), (<<"9", ":", "0", "5">>)>> }

\* what the bridge may send: new_message for a row of a chat as the polling
\* loop builds it from parseMessageRow, or a notification of another method
Notifications ==
  {KakaoTalkRpcNotification("new_message", c, ParseMessageRow(r)) :
     c \in {<<"Alice">>, <<"Bob">>}, r \in MonitorRows}
  \cup {KakaoTalkRpcNotification("other", <<"Alice">>,
                                 [sender |-> <<"Bob">>, text |-> <<"hi">>])}

\* handleNewMessage: the notification passes the guard before the calls of
\* the runtime when chatName, sender and text are non-empty after trim()
Routes(note) ==
  /\ Len(Trim(note.chatName)) > 0
  /\ Len(Trim(note.sender)) > 0
  /\ Len(Trim(note.text)) > 0

\* onNotification: handleNewMessage runs for new_message only
OnNotification(note) == note.method = "new_message" /\ Routes(note)

\* monitorKakaoTalkProvider(opts) up to await client.waitForClose(): return
\* at once when the signal is aborted; else register onAbort and start the
\* client; when spawn throws, start() rejects, the catch block logs and
\* rethrows and the finally block finds no child to stop
MonitorCall ==
  /\ monitor.pc = "idle"
  /\ child = 0 /\ spawned = 0 /\ nextId = 1
  /\ \E aborted \in BOOLEAN, policy \in DmPolicies, allow \in AllowLists :
       LET m == MonitorState("idle", policy, allow) IN
       IF aborted
       THEN /\ monitor' = [m EXCEPT !.pc = "returned", !.aborted = TRUE,
                                    !.onEntry = TRUE]
            /\ UNCHANGED <<clientVars, emitted>>
       ELSE \/ /\ StartClient
               /\ monitor' = [m EXCEPT !.pc = "waiting", !.listening = TRUE]
            \/ /\ monitor' = [m EXCEPT !.pc = "thrown", !.logged = TRUE]
               /\ UNCHANGED <<clientVars, emitted>>
  /\ UNCHANGED <<serverVars, pollingVars, uiVars, sendCall, probe,
                 accountCall>>

\* a listener that does nothing
OnAbortIgnored ==
  UNCHANGED <<clientVars, emitted>>

\* onAbort: client.stop()
OnAbort ==
  \/ StopClient
  \/ child = 0 /\ UNCHANGED <<clientVars, emitted>>

\* the caller's signal fires while the listener is registered
MonitorAbort ==
  /\ monitor.pc = "waiting"
  /\ monitor.listening
  /\ ~monitor.aborted
  /\ OnAbort
  /\ monitor' = [monitor EXCEPT !.aborted = TRUE]
  /\ UNCHANGED <<serverVars, pollingVars, uiVars, sendCall, probe,
                 accountCall>>

\* the reader of the child emits a line; a notification goes to
\* onNotification
MonitorLine(p) ==
  /\ monitor.pc = "waiting"
  /\ \E line \in ChildLineChoices, note \in Notifications :
       /\ ReadLineClient(p, line)
       /\ monitor' = IF line.t = "obj" /\ ~IsResponse(line) /\ HasMethod(line)
                     THEN [monitor EXCEPT !.note = note,
                                          !.routed = OnNotification(note)]
                     ELSE monitor
  /\ UNCHANGED <<serverVars, pollingVars, uiVars, sendCall, probe,
                 accountCall>>

\* this.closed is resolved: waitForClose() returns, the try block ends, the
\* finally block removes the listener and calls stop(), whose race ends with
\* this.closed, and the monitor returns
MonitorResume ==
  /\ monitor.pc = "waiting"
  /\ closedResolved
  /\ \/ StopClient
     \/ child = 0 /\ UNCHANGED <<clientVars, emitted>>
  /\ monitor' = [monitor EXCEPT !.pc = "returned", !.listening = FALSE]
  /\ UNCHANGED <<serverVars, pollingVars, uiVars, sendCall, probe,
                 accountCall>>

\* the events of the monitor's child, the timers of stop()
MonitorNext ==
  \/ MonitorCall
  \/ MonitorAbort
  \/ \E p \in Procs : MonitorLine(p)
  \/ MonitorResume
  \/ \E p \in Procs : ChildExit(p)
  \/ \E p \in Procs : ErrorEvent(p)
  \/ \E p \in Procs : CloseEvent(p)
  \/ \E p \in Procs : KillTimerFire(p)

SpecMonitor == Init /\ [][MonitorNext]_vars


BridgeNext ==
  \/ DispatchInput
  \/ StdinEOF
  \/ DispatchWrite(FALSE)
  \/ PollCycle(FALSE)
  \/ PollSend(FALSE)
  \/ PollWrite(FALSE)

SpecClient == Init /\ [][ClientNext]_vars

\* The event loop runs every callback that is due: timers of request() and of
\* stop(), and the error/close events of a child that failed or exited.
ClientFairness ==
  /\ \A k \in Ids : WF_vars(TimerFire(k))
  /\ \A p \in Procs : WF_vars(KillTimerFire(p))
  /\ \A p \in Procs : WF_vars(ErrorEvent(p))
  /\ \A p \in Procs : WF_vars(CloseEvent(p))

SpecClientLive == Init /\ [][ClientNext]_vars /\ ClientFairness

\* the continuation of waitForClose() runs once this.closed is resolved
MonitorFairness ==
  /\ ClientFairness
  /\ WF_vars(MonitorResume)

SpecMonitorLive == Init /\ [][MonitorNext]_vars /\ MonitorFairness

SpecBridge == Init /\ [][BridgeNext]_vars

(***************************************************************************)
(* Client and bridge together: the client spawns the bridge, its requests  *)
(* travel over the child's stdin and the child's stdout feeds the reader.  *)
(***************************************************************************)
\* request(): child.stdin.write(line) after the entry is stored
RequestWrite(timeoutMs) ==
  /\ nextId <= MaxWireRequests
  /\ RequestClient(timeoutMs)
  /\ stdin' = IF procState[child] = "running" THEN Append(stdin, nextId)
              ELSE stdin
  /\ UNCHANGED <<dispatchVars, pollerVars, partial, outLines, lastIntact,
                 historyVars, responses>>
  /\ UNCHANGED detailVars

\* a reader that emits the newest line first
NextLineNewest(q) == q[Len(q)]

\* readline emits the lines of child.stdout in the order they were written
NextLine(q) == Head(q)

\* reader.on("line") for the next line of the child's stdout
ReadOutput ==
  /\ child # 0
  /\ outLines # <<>>
  /\ LET line == NextLine(outLines) IN
       /\ HandleLine(line)
       /\ last' = Event("line", line, 0)
  /\ outLines' = Tail(outLines)
  /\ UNCHANGED <<child, spawned, procState, nextId, closedResolved, killTimer,
                 emitted, stdin, dispatchVars, pollerVars, partial, lastIntact,
                 historyVars, responses>>
  /\ UNCHANGED detailVars

E2ENext ==
  \/ Start
  \/ \E t \in TimeoutChoices : RequestWrite(t)
  \/ \E k \in Ids : TimerFire(k)
  \/ \E p \in Procs : ErrorEvent(p)
  \/ ReadOutput
  \/ DispatchRequest
  \/ DispatchWrite(TRUE)
  \/ PollCycle(TRUE)
  \/ PollSend(TRUE)
  \/ PollWrite(TRUE)

SpecE2E == Init /\ [][E2ENext]_vars

(***************************************************************************)
(* Claims about the RPC client, checked under SpecClient.                  *)
(***************************************************************************)
ClientState == <<pending, timers, future, settleCalls, removals, delivered>>

LastIsResponse == last.ev = "line" /\ last.line.t = "obj" /\ last.line.hasId

\* C1: a response line carrying id k settles only the pending entry for k
\* (resolve on result, reject on error), clears its timer and removes it, and
\* leaves every other entry pending and unsettled; a response whose id has no
\* pending entry is dropped and changes nothing.
C1_ResponseSettlesOnlyItsEntry ==
  [][LastIsResponse' =>
       LET k == last'.line.id IN
       IF k \in DOMAIN pending
       THEN /\ DOMAIN pending' = DOMAIN pending \ {k}
            /\ future[k] = "unsettled"
            /\ future'[k] = IF last'.line.err THEN "rpc_error" ELSE "resolved"
            /\ k \notin timers'
            /\ \A j \in Ids \ {k} :
                 /\ future'[j] = future[j]
                 /\ settleCalls'[j] = settleCalls[j]
                 /\ removals'[j] = removals[j]
                 /\ (j \in timers') = (j \in timers)
                 /\ j \in DOMAIN pending => pending'[j] = pending[j]
       ELSE UNCHANGED ClientState]_vars

\* a response has resolved one request while another one is still outstanding
C1_Witness ==
  /\ LastIsResponse
  /\ future[last.line.id] = "resolved"
  /\ \E j \in DOMAIN pending : j # last.line.id /\ future[j] = "unsettled"

\* C2: when the child process closes or emits an error, every request pending
\* at that moment is rejected with the process-exit error and the pending
\* table is empty right after the handler.
C2_ExitRejectsAllPending ==
  [][last'.ev \in {"close", "error"} =>
       /\ pending' = EmptyPending
       /\ timers' \cap DOMAIN pending = {}
       /\ \A k \in Ids :
            future'[k] = IF k \in DOMAIN pending THEN "exit" ELSE future[k]]_vars

\* the close handler has rejected two requests at once
C2_Witness ==
  /\ last.ev = "close"
  /\ Cardinality({k \in Ids : future[k] = "exit"}) >= 2
  /\ pending = EmptyPending

\* C3: an entry is in the pending table exactly while the promise of its
\* request is unsettled; it is created by request(), removed at most once,
\* and that removal goes with the one and only settling of the promise.
C3_PendingIffUnsettled ==
  \A k \in Ids :
    /\ (k \in DOMAIN pending) = (future[k] = "unsettled")
    /\ (future[k] = "unsent") = (k >= nextId)
    /\ settleCalls[k] <= 1
    /\ removals[k] <= 1
    /\ settleCalls[k] =
         IF future[k] \in {"resolved", "rpc_error", "timeout", "exit"}
         THEN 1 ELSE 0
    /\ removals[k] = settleCalls[k]
    /\ k \in timers => k \in DOMAIN pending /\ pending[k].timer

\* one request was removed by its timer, another by a response
C3_Witness ==
  \E j, k \in Ids :
    /\ future[j] = "timeout" /\ removals[j] = 1
    /\ future[k] = "resolved" /\ removals[k] = 1

LastIsNotification ==
  /\ last.ev = "line" /\ last.line.t = "obj"
  /\ ~last.line.hasId /\ last.line.method = "named"

\* C9: a line without id (or with a null id) that has a method is handed to
\* the notification callback and never resolves, rejects or removes a pending
\* request.  ("has a method" is the truthiness test of handleLine: a method
\* that is the empty string is no method.)
C9_NotificationNeverSettles ==
  [][LastIsNotification' =>
       /\ delivered' = Append(delivered, last'.line.n)
       /\ UNCHANGED <<pending, timers, future, settleCalls, removals>>]_vars

\* a notification was delivered while a request was outstanding
C9_Witness ==
  /\ LastIsNotification
  /\ Len(delivered) >= 1
  /\ pending # EmptyPending

\* C11: a request sent with timeoutMs > 0 gets a timer, and when the timer
\* fires before a response the request is rejected with the timeout error and
\* its entry removed, every other request untouched; a response for that id
\* arriving later changes nothing; a request sent with timeoutMs <= 0 gets no
\* timer, and only a fired timer ever rejects with the timeout error.
C11_TimeoutOnlyWithTimer ==
  [][/\ last'.ev = "request" =>
          /\ (last'.key \in timers') = (last'.ms > 0)
          /\ pending'[last'.key].timer = (last'.ms > 0)
     /\ last'.ev = "timer" =>
          LET k == last'.key IN
          /\ k \in timers /\ pending[k].timer
          /\ future[k] = "unsettled" /\ future'[k] = "timeout"
          /\ DOMAIN pending' = DOMAIN pending \ {k}
          /\ \A j \in Ids \ {k} :
               future'[j] = future[j] /\ (j \in timers') = (j \in timers)
     /\ \A k \in Ids :
          /\ (future'[k] = "timeout" /\ future[k] # "timeout") =>
               last'.ev = "timer" /\ last'.key = k
          /\ (k \in timers' /\ k \notin timers) =>
               last'.ev = "request" /\ last'.key = k /\ last'.ms > 0
     /\ (LastIsResponse' /\ future[last'.line.id] = "timeout") =>
          UNCHANGED ClientState]_vars

\* a response arrives for a request that timed out, while a request without
\* timer is still pending
C11_Witness ==
  /\ future[1] = "timeout"
  /\ LastIsResponse /\ last.line.id = 1
  /\ 2 \in DOMAIN pending /\ ~pending[2].timer
  /\ future[2] = "unsettled"

\* C12: a request is settled by the first of its response, its timeout and
\* the exit of the child process; no request stays unsettled once the child
\* process the client holds has exited.
C12_SettledAfterChildExit ==
  \A k \in Ids :
    (future[k] = "unsettled" /\ child # 0
       /\ procState[child] \in {"exited", "closed"})
    ~> (future[k] # "unsettled")

\* C13: when the executable cannot be spawned, the client holds no child
\* process after start().
C13_FailedSpawnLeavesNoChild ==
  \A p \in Procs : procState[p] = "failed" => child # p

\* C14: the client never goes back from Stopping or Closed (a child was
\* spawned and given up) to Running (it holds a child), and never more than
\* one of the child processes it spawned is alive.
C14_LifecycleOnlyForward ==
  [][/\ (child = 0 /\ spawned > 0) => child' = 0
     /\ Cardinality({p \in Procs : procState'[p] = "running"}) <= 1]_vars

\* C15: stop() on a client with a child gives the child up and arms the
\* 500 ms timer; after it the child process eventually is not running any
\* more and the stop() call is not suspended any more
C15_StopTerminatesChild ==
  /\ [][last'.ev = "stop" =>
          child # 0 /\ child' = 0 /\ child \in killTimer']_vars
  /\ \A p \in Procs :
       (p \in killTimer) ~> (procState[p] # "running" /\ p \notin StopAwaiting)

\* the timer of stop() has fired for a child that did not close before
C15_Witness ==
  /\ last.ev = "kill"
  /\ child = 0
  /\ ~closedResolved
  /\ procState[1] = "exited"
  /\ killTimer = {}

(***************************************************************************)
(* The dispatch loop of the bridge.                                        *)
(***************************************************************************)
\* the last input line is a well-formed request
LastInWellFormed ==
  lastIn.kind = "object" /\ lastIn.hasId /\ lastIn.hasMethod

\* the last input line is non-blank and no request can be built from it
LastInUnparseable ==
  \/ lastIn.kind \in {"malformed", "nonobject"}
  \/ lastIn.kind = "object" /\ ~(lastIn.hasId /\ lastIn.hasMethod)

\* C4: after any sequence of input lines the dispatch loop has written one
\* response line per non-blank line consumed (the one for the line just
\* consumed may still be in writeJsonLine) and none for a blank line; the
\* response to a well-formed request carries its id and exactly one of
\* result and error.
C4_OneResponsePerNonBlankLine ==
  /\ dpc = "write" => responses + 1 = nonBlank /\ lastIn.kind # "blank"
  /\ dpc # "write" => responses = nonBlank
  /\ LastInWellFormed =>
       dresp.hasId /\ dresp.id = lastIn.id /\ dresp.result # dresp.error

C4_Witness ==
  /\ linesRead = 3
  /\ nonBlank = 2
  /\ responses = 2
  /\ lastIn.kind = "blank"
  /\ dresp.hasId /\ dresp.result

\* C5: a non-blank line that is no JSON object, or an object without an
\* integer id or without a string method, gets one response with code -32700
\* and a null id, no handler is invoked for it, and the loop returns to
\* reading once the response is written.
C5_ParseErrorResponse ==
  [][/\ (linesRead' = linesRead + 1 /\ LastInUnparseable') =>
          /\ dpc' = "write"
          /\ responses' = responses
          /\ dresp'.error /\ ~dresp'.result
          /\ dresp'.code = -32700
          /\ ~dresp'.hasId
          /\ lastOutcome' = NoOutcome
     /\ (dpc = "write" /\ LastInUnparseable /\ dpc' # "write") =>
          /\ dpc' = "read"
          /\ responses' = responses + 1]_vars

C5_Witness ==
  /\ lastIn.kind = "object" /\ lastIn.hasId /\ ~lastIn.hasMethod
  /\ dpc = "read"
  /\ responses = 2
  /\ dresp.code = -32700

\* C6: a well-formed request for a method that is not registered gets one
\* error response with code -32601 and the id of the request, and no handler
\* is invoked.
C6_MethodNotFoundResponse ==
  [][/\ (linesRead' = linesRead + 1 /\ LastInWellFormed'
          /\ lastIn'.method \notin Registered) =>
          /\ dpc' = "write"
          /\ responses' = responses
          /\ dresp'.error /\ ~dresp'.result
          /\ dresp'.code = -32601
          /\ dresp'.hasId /\ dresp'.id = lastIn'.id
          /\ lastOutcome' = NoOutcome
     /\ (dpc = "write" /\ LastInWellFormed /\ lastIn.method \notin Registered
          /\ dpc' # "write") =>
          /\ dpc' = "read"
          /\ responses' = responses + 1]_vars

C6_Witness ==
  /\ LastInWellFormed
  /\ lastIn.method = "no_such_method"
  /\ lastIn.id = 2
  /\ dpc = "read"
  /\ dresp = rpcErrorResponse(2, methodNotFound)

\* the codes RpcErrorCode assigns to one specific condition each
SpecificCodes ==
  {parseError, methodNotFound, appNotRunning, noAccessibility, windowNotFound,
   chatNotFound, inputNotFound, timeout}

\* C7: when a registered handler fails with an error that is no
\* RpcMethodError, the response echoes the request id and its code is a
\* generic internal-error code, none of the codes assigned to a specific
\* condition, and the loop goes on.
C7_UntypedFailureGetsGenericCode ==
  lastOutcome.k = "untyped" =>
    /\ dpc \in {"write", "read"}
    /\ dresp.error /\ ~dresp.result
    /\ dresp.hasId /\ dresp.id = lastIn.id
    /\ dresp.code \notin SpecificCodes

(***************************************************************************)
(* The shared output stream.                                               *)
(***************************************************************************)
\* C8: under every interleaving of the dispatch loop and the polling thread,
\* each line completed on stdout is one JSON value written by one writer.
C8_EveryLineFromOneWriter == lastIntact

(***************************************************************************)
(* Client and bridge together.                                             *)
(***************************************************************************)
\* C10: the notification callback sees the notifications in the order the
\* bridge wrote them: the numbers delivered are emitted ones and strictly
\* increase, whatever responses are read in between.
C10_NotificationsInEmissionOrder ==
  /\ \A j \in 1..Len(delivered) : delivered[j] \in 1..emitted
  /\ \A j \in 1..Len(delivered), k \in 1..Len(delivered) :
       j < k => delivered[j] < delivered[k]

C10_Witness ==
  /\ delivered = <<1>>
  /\ LastIsResponse
  /\ outLines # <<>>
  /\ Head(outLines) = NotificationLine(2)


(***************************************************************************)
(* The polling loop, checked under SpecPoll.                               *)
(***************************************************************************)
\* the step is one iteration of the loop over the chats of the list
ChatStep == pollPc = "chats" /\ idx' = idx + 1

\* the unread count of the last row named n in the list
CountInList(chats, n) ==
  LET last_i == CHOOSE i \in 1..Len(chats) :
                  /\ chats[i].name = n
                  /\ \A j \in (i + 1)..Len(chats) : chats[j].name # n
  IN chats[last_i].unreadCount

\* C16: in a cycle whose reads succeed, a chat whose unread count exceeds the
\* tracked count (0 if not tracked) by d > 0 is opened and read, and one
\* new_message notification goes out for each of the last d messages read,
\* oldest first (for all of them when fewer than d were read); a chat with
\* d <= 0 is neither opened nor read and nothing is emitted for it.
C16_NotificationsForDelta ==
  [][ChatStep =>
       LET c == cycleList.chats[idx]
           d == c.unreadCount -
                  (IF c.name \in DOMAIN tracked THEN tracked[c.name] ELSE 0)
           n == lastRead'.n
           m == IF d < n THEN d ELSE n
       IN /\ (d > 0 /\ lastRead'.ok) =>
               /\ Len(pollLog') = 2 + m
               /\ pollLog'[1] = Op("open", c.name)
               /\ pollLog'[2] = Op("read", c.name)
               /\ \A i \in 1..m :
                    pollLog'[2 + i] =
                      [op |-> "new_message", chatName |-> c.name,
                       sender |-> Message(c.name, n - m + i).sender,
                       text |-> Message(c.name, n - m + i).text,
                       time |-> Message(c.name, n - m + i).time]
          /\ d <= 0 => pollLog' = <<>> /\ lastRead' = NoRead]_vars

\* a tracked chat gained one unread message, two messages were read and only
\* the newest one was reported
C16_Witness ==
  /\ pollPc = "chats"
  /\ idx = 2
  /\ lastRead = [ok |-> TRUE, n |-> 2]
  /\ cycleList.chats[1] = ChatEntry("Alice", 2)
  /\ Len(pollLog) = 3
  /\ pollLog[3] = NewMessage("Alice", Message("Alice", 2))

\* C17: after a cycle whose chat-list read succeeded the tracked counts are
\* exactly the mapping chat name -> unread count of that cycle's list.
C17_TrackedIsCurrentList ==
  (pollPc = "sleep" /\ cycleList.ok) =>
    /\ DOMAIN tracked =
         {cycleList.chats[i].name : i \in 1..Len(cycleList.chats)}
    /\ \A n \in DOMAIN tracked : tracked[n] = CountInList(cycleList.chats, n)

\* a cycle has ended that saw Alice with no unread message and no Bob, after
\* a cycle in which the messages of Bob could not be read
C17_Witness ==
  /\ pollPc = "sleep"
  /\ cycleList.ok
  /\ cycleList.chats = <<ChatEntry("Alice", 0)>>
  /\ tracked = [n \in {"Alice"} |-> 0]
  /\ \E u \in 1..MaxUnread : ChatEntry("Bob", u) \in failedPrev

\* C18: a cycle whose chat-list read fails emits nothing, leaves the tracked
\* counts as they are and ends in the sleep before the next cycle; the loop
\* has no state in which it has ended.
C18_FailedListCycleIsSilent ==
  /\ [](pollPc \in {"sleep", "chats"})
  /\ [][(pollPc = "sleep" /\ ~cycleList'.ok) =>
          /\ tracked' = tracked
          /\ pollLog' = <<>>
          /\ pollPc' = "sleep"]_vars

\* a list read failed while counts are tracked
C18_Witness ==
  /\ pollPc = "sleep"
  /\ ~cycleList.ok
  /\ tracked # EmptyTracked
  /\ failedPrev # {}

\* C19: when the messages of a chat could not be read in a cycle and the next
\* cycle finds the chat with the same unread count, that cycle tries to read
\* the chat again.
C19_NextCycleReadsAgain ==
  [][(ChatStep /\ cycleList.chats[idx] \in failedPrev) =>
       \E i \in 1..Len(pollLog') :
         pollLog'[i] = Op("read", cycleList.chats[idx].name)]_vars

(***************************************************************************)
(* Chat room operations, checked under SpecOps.                            *)
(***************************************************************************)
\* C20: sendMessage with a text that is empty or made of whitespace and
\* newlines only fails with the empty-message error and has touched the UI
\* in no way: no window lookup, no open, no double-click, no focus change,
\* no value write, no Enter key, and the open windows are as before.
C20_BlankTextFailsBeforeUi ==
  [][(lastCall'.op = "send_message"
        /\ \A i \in 1..Len(lastCall'.text) :
             lastCall'.text[i] \in {" ", "\n", "\t", "\r"}) =>
       /\ ~opResult'.ok
       /\ opResult'.message = "Cannot send empty message"
       /\ uiLog' = <<>>
       /\ windows' = windows]_vars

\* a text of a blank and a newline was rejected while the window was closed
C20_Witness ==
  /\ lastCall = Call("send_message", "Alice", <<" ", "\n">>)
  /\ ~opResult.ok
  /\ uiLog = <<>>
  /\ windows = {}

\* the indexes of a log at which a step is taken
StepsOf(log, s) == {i \in 1..Len(log) : log[i].step = s}

\* a lookup of a log got the answer
Answered(log, s, found) ==
  \E i \in StepsOf(log, s) : log[i].found = found

\* a log without focus change, value write and Enter key
NoTyping(log) ==
  \A i \in 1..Len(log) : log[i].step \notin {"focus", "set_value", "enter"}

\* a text with a character that is no white space
NonBlank(text) ==
  \E i \in 1..Len(text) : text[i] \notin {" ", "\n", "\t", "\r"}

\* C21: sendMessage with a non-blank text looks for the window first; when
\* there is none it runs openChat, and an openChat that fails with
\* ChatNotFound or Timeout ends the call with that error and without focus
\* change, value write or Enter key; a window without input field ends the
\* call with InputNotFound and without Enter key; otherwise the call
\* succeeds and ends with focus, value write, Enter key in this order, each
\* once, so that no Enter key comes before the value write.
C21_SendOpensThenTypesThenEnter ==
  [][(lastCall'.op = "send_message" /\ NonBlank(lastCall'.text)) =>
       LET log == uiLog'
           name == lastCall'.name
           n == Len(uiLog')
       IN /\ n > 0 /\ log[1] = Lookup("window", name \in windows)
          /\ name \notin windows => n > 1 /\ log[2].step = "find_row"
          /\ name \in windows =>
               StepsOf(log, "find_row") \cup StepsOf(log, "double_click") = {}
          /\ (Answered(log, "find_row", FALSE)
                \/ Answered(log, "center_point", FALSE)) =>
               opResult'.code = chatNotFound /\ NoTyping(log)
          /\ (StepsOf(log, "double_click") # {}
                /\ ~Answered(log, "window", TRUE)) =>
               opResult'.code = timeout /\ NoTyping(log)
          /\ Answered(log, "find_input", FALSE) =>
               opResult'.code = inputNotFound /\ StepsOf(log, "enter") = {}
          /\ Answered(log, "find_input", TRUE) =>
               /\ opResult'.ok
               /\ SubSeq(log, n - 2, n) =
                    <<Effect("focus"), Effect("set_value"), Effect("enter")>>
               /\ \A s \in {"focus", "set_value", "enter"} :
                    Cardinality(StepsOf(log, s)) = 1
          /\ opResult'.ok => Answered(log, "find_input", TRUE)
          /\ \A i \in StepsOf(log, "enter") :
               \E j \in StepsOf(log, "set_value") :
                 j < i /\ \E k \in StepsOf(log, "focus") : k < j]_vars

\* a text was sent to a chat whose window had to be opened first: the
\* double-click, then the typing, the Enter key last
C21_Witness ==
  /\ lastCall = Call("send_message", "Alice", <<"a">>)
  /\ opResult.ok
  /\ StepsOf(uiLog, "double_click") # {}
  /\ uiLog[Len(uiLog)] = Effect("enter")

\* C22: openChat looks for the row first; when no row of the chat list has
\* the name as its first text it fails with ChatNotFound and no double-click
\* is sent; when the double-click was sent and no window check found the
\* window it fails with Timeout (-32005), not ChatNotFound; the call makes
\* at most WindowChecks window checks before it ends.
C22_OpenChatFailures ==
  [][lastCall'.op = "open_chat" =>
       LET log == uiLog'
           name == lastCall'.name
       IN /\ Len(log) > 0 /\ log[1].step = "find_row"
          /\ log[1].found =
               \E i \in 1..Len(log[1].seen) :
                 /\ Len(log[1].seen[i]) > 0
                 /\ log[1].seen[i][1] = Word(name)
          /\ ~log[1].found =>
               /\ opResult' = Thrown(chatNotFound, "chat not found")
               /\ StepsOf(log, "double_click") = {}
          /\ (StepsOf(log, "double_click") # {}
                /\ ~Answered(log, "window", TRUE)) =>
               /\ opResult'.code = timeout
               /\ opResult'.code = -32005
               /\ opResult'.code # chatNotFound
               /\ windows' = windows
          /\ Cardinality(StepsOf(log, "window")) <= WindowChecks
          /\ opResult'.ok <=> Answered(log, "window", TRUE)
          /\ opResult'.ok => windows' = windows \cup {name}]_vars

\* the row was found and double-clicked, every window check until the
\* deadline came back empty, and the call failed with Timeout
C22_Witness ==
  /\ lastCall = Call("open_chat", "Alice", <<>>)
  /\ opResult.code = timeout
  /\ StepsOf(uiLog, "double_click") # {}
  /\ Cardinality(StepsOf(uiLog, "window")) = WindowChecks
  /\ ~Answered(uiLog, "window", TRUE)

(***************************************************************************)
(* Queries, checked under SpecQuery.                                       *)
(***************************************************************************)
\* C23: readMessages leaves the open windows as they were, looks things up
\* only (no row search, no double-click, no other synthetic input), and
\* fails with WindowNotFound (-32002) when no window has the name.
C23_ReadMessagesOnlyReads ==
  [][lastCall'.op = "read_messages" =>
       /\ windows' = windows
       /\ \A i \in 1..Len(uiLog') :
            /\ ~uiLog'[i].input
            /\ uiLog'[i].step \notin {"find_row", "double_click"}
       /\ lastCall'.name \notin windows =>
            /\ ~opResult'.ok
            /\ opResult'.code = windowNotFound
            /\ opResult'.code = -32002
            /\ opValue' = <<>>
       /\ lastCall'.name \in windows => opResult'.ok]_vars

\* Alice's messages were asked for while only other windows were open and
\* the table had rows
C23_Witness ==
  /\ lastCall.op = "read_messages" /\ lastCall.name = "Alice"
  /\ windows = {"Bob", MainWindowTitle}
  /\ opResult.code = windowNotFound
  /\ screen.depth = "table" /\ Len(screen.rows) > 0

\* the element of a set of indexes with k - 1 elements below it
Nth(S, k) == CHOOSE i \in S : Cardinality({j \in S : j < i}) = k - 1

\* a is b, or goes on after b, or has the higher character at the first
\* place where the two differ
AtOrAfter(a, b) ==
  \/ Len(b) <= Len(a) /\ SubSeq(a, 1, Len(b)) = b
  \/ \E p \in 1..Len(a) :
       /\ p <= Len(b)
       /\ SubSeq(a, 1, p - 1) = SubSeq(b, 1, p - 1)
       /\ CodePoint(a[p]) > CodePoint(b[p])

\* C24: with a since that is not empty, readMessages returns the parsed rows
\* whose time is empty or not below since as a string, in the order of the
\* rows and nothing else; with no since or an empty one it returns every
\* parsed row.
C24_SinceKeepsTimelessAndLater ==
  [][(lastCall'.op = "read_messages" /\ opResult'.ok
        /\ screen.depth = "table") =>
       LET all == ParsedMessages(screen.rows)
           since == lastCall'.text.since
           kept == IF since.some /\ since.v # <<>>
                   THEN {k \in 1..Len(all) :
                           \/ all[k].time = <<>>
                           \/ AtOrAfter(all[k].time, since.v)}
                   ELSE 1..Len(all)
       IN /\ Len(opValue') = Cardinality(kept)
          /\ \A j \in 1..Len(opValue') : opValue'[j] = all[Nth(kept, j)]]_vars

\* since 9:05: the row of 10:00 is dropped, being below it as a string, and
\* the row without a time is kept
C24_Witness ==
  /\ lastCall.op = "read_messages" /\ lastCall.name = "Alice"
  /\ lastCall.text.since = Some(T0905)
  /\ opResult.ok
  /\ screen.rows = <<<<Word("Alice"), <<"2">>, T1000>>, <<Word("hi")>>>>
  /\ opValue = <<[sender |-> <<>>, text |-> Word("hi"), time |-> <<>>]>>

\* C25: listChats without a main window fails with WindowNotFound (-32002)
\* and the window title in the data of the error; it returns an empty list
\* only when the main window is there and its scroll area or table is
\* missing or the table has no rows.
C25_UnreachableMainWindowIsError ==
  [][lastCall'.op = "list_chats" =>
       /\ MainWindowTitle \notin windows =>
            /\ ~opResult'.ok
            /\ opResult'.code = -32002
            /\ \E i \in 1..Len(opResult'.data) :
                 opResult'.data[i] = MainWindowTitle
       /\ (opResult'.ok /\ opValue' = <<>>) =>
            /\ MainWindowTitle \in windows
            /\ screen.depth # "table" \/ screen.rows = <<>>]_vars

\* C26: listChats(limit) returns at most L entries, L being the limit when
\* it is above 0 and 50 otherwise: one entry for each of the first L rows
\* that has texts, in the order of the rows, none for a row without texts,
\* and no entry has an unread count below 0.
C26_ListChatsLimit ==
  [][(lastCall'.op = "list_chats" /\ opResult'.ok
        /\ screen.depth = "table") =>
       LET limit == lastCall'.text.limit
           L == IF limit > 0 THEN limit ELSE 50
           rows == screen.rows
           full == {i \in 1..Len(rows) : i <= L /\ Len(rows[i]) > 0}
       IN /\ Len(opValue') <= L
          /\ Len(opValue') = Cardinality(full)
          /\ \A k \in 1..Len(opValue') :
               /\ opValue'[k].name = rows[Nth(full, k)][1]
               /\ opValue'[k] = ParseChatRow(rows[Nth(full, k)])
               /\ opValue'[k].unreadCount >= 0]_vars

\* a table of 51 rows read with limit 0: the 33 of the first 50 rows that
\* have texts give the entries, the last one is row 50, row 51 is left out
C26_Witness ==
  /\ lastCall.op = "list_chats" /\ lastCall.text.limit = 0
  /\ Len(screen.rows) = defaultChatLimit + 1
  /\ Len(screen.rows[defaultChatLimit + 1]) > 0
  /\ Len(opValue) = 33
  /\ opValue[33].name = <<"5", "0">>

\* C27: checkKakaoTalkStatus asks whether the app runs, then for the
\* permission, then for the main window, and stops at the first no: not
\* running means neither of the other two is asked, mainWindow implies
\* accessible implies running, and the message is absent exactly when all
\* three flags are true.
C27_StatusShortCircuits ==
  [][lastCall'.op = "check_status" =>
       LET app == lastCall'.text.app
           s == opValue'
           log == uiLog'
       IN /\ opResult'.ok
          /\ s.mainWindow => s.accessible
          /\ s.accessible => s.running
          /\ s.running = app.running
          /\ s.accessible = (app.running /\ app.trusted)
          /\ s.mainWindow =
               (app.running /\ app.trusted /\ MainWindowTitle \in windows)
          /\ log[1] = Lookup("running", app.running)
          /\ ~app.running => Len(log) = 1
          /\ (app.running /\ ~app.trusted) =>
               log = <<Lookup("running", TRUE), Lookup("trusted", FALSE)>>
          /\ (app.running /\ app.trusted) =>
               /\ Len(log) = 3
               /\ log[2] = Lookup("trusted", TRUE)
               /\ log[3].step = "window"
          /\ (s.message = <<>>) <=>
               (s.running /\ s.accessible /\ s.mainWindow)]_vars

\* the app was not running while the permission was granted and a main
\* window was listed: one question asked, all flags false
C27_Witness ==
  /\ lastCall.op = "check_status"
  /\ lastCall.text.app = [running |-> FALSE, trusted |-> TRUE]
  /\ MainWindowTitle \in windows
  /\ Len(uiLog) = 1
  /\ ~opValue.accessible /\ ~opValue.mainWindow
  /\ opValue.message # <<>>

(***************************************************************************)
(* The extension, checked under SpecSend and SpecProbe.                    *)
(***************************************************************************)
\* C28: sendMessageKakaoTalk called with a text that is empty or white
\* space only returns a failed result at once, whatever the target is, with
\* or without a client, with or without a child: no id is taken, no entry
\* is added, no request is written.
C28_BlankTextMakesNoRequest ==
  [][(sendCall' # sendCall /\ sendCall.pc # "awaiting"
        /\ \A i \in 1..Len(sendCall'.text) :
             sendCall'.text[i] \in {" ", "\n", "\t", "\r"}) =>
       /\ sendCall'.pc = "returned"
       /\ ~sendCall'.success
       /\ sendCall'.error # ""
       /\ sendCall'.key = 0
       /\ nextId' = nextId
       /\ pending' = pending
       /\ future' = future
       /\ last' = last]_vars

\* a newline was to be sent to a chat through a client whose child runs
C28_Witness ==
  /\ sendCall.pc = "returned"
  /\ sendCall.text = <<"\n">> /\ sendCall.to = <<"a">> /\ sendCall.client
  /\ child # 0 /\ procState[child] = "running"
  /\ nextId = 1
  /\ ~sendCall.success

\* C29: sendMessageKakaoTalk never throws: a blank text, a blank target, a
\* missing client, an error response, a timeout and the exit of the bridge
\* all end in a returned result with success false; success true is
\* returned only for a request the bridge answered with a result.
C29_EveryFailureIsAResult ==
  /\ sendCall.pc # "thrown"
  /\ (sendCall.pc = "returned" /\ sendCall.success) =>
       /\ sendCall.key # 0
       /\ future[sendCall.key] = "resolved"
  /\ (sendCall.pc = "returned" /\ ~sendCall.success) => sendCall.error # ""

\* C30: when probeKakaoTalk returns, stop() of its client has been called,
\* once; ok is true exactly when start() resolved and the check_status
\* request was answered with a result, and otherwise the result carries the
\* message of the error.
C30_ProbeStopsBeforeReturn ==
  probe.pc = "returned" =>
    /\ probe.stops = 1
    /\ probe.ok <=>
         (probe.started /\ probe.key # 0 /\ future[probe.key] = "resolved")
    /\ ~probe.ok => probe.error # ""

\* the probe returned ok: false after the bridge exited with the request
\* open, and the client was stopped
C30_Witness ==
  /\ probe.pc = "returned"
  /\ ~probe.ok /\ probe.error = "exit"
  /\ probe.stops = 1
  /\ child = 0

(***************************************************************************)
(* C31.  Whenever the caller's abort signal fires while the monitor runs,  *)
(* stop() is called on the client (the child is forgotten and its kill     *)
(* timer armed), the child ends and the monitor returns without throwing;  *)
(* a signal aborted on entry spawns no child; no child runs once the       *)
(* monitor has returned.                                                   *)
(***************************************************************************)
NoChildRuns == \A p \in Procs : procState[p] # "running"

C31_AbortStopsChild ==
  /\ [](monitor.onEntry => spawned = 0 /\ monitor.pc = "returned")
  /\ [](monitor.pc \in {"returned", "thrown"} => NoChildRuns)
  /\ [](monitor.aborted => monitor.pc # "thrown")
  /\ [][(monitor.pc = "waiting" /\ ~monitor.aborted /\ monitor'.aborted)
         => /\ child' = 0
            /\ child # 0 => child \in killTimer']_vars
  /\ (monitor.aborted ~> (monitor.pc = "returned" /\ NoChildRuns))

\* the signal fired while the child ran, the kill timer of stop() went off
\* and the monitor has returned
C31_Witness ==
  /\ monitor.aborted /\ ~monitor.onEntry
  /\ monitor.pc = "returned"
  /\ last.ev = "close"
  /\ procState[1] = "closed"
  /\ killTimer = {}

(***************************************************************************)
(* C32.  When the bridge ends abnormally while the monitor waits and the   *)
(* signal has not fired, the monitor calls runtime.error and throws: here  *)
(* for the child whose error event (spawn failed) has just resolved        *)
(* this.closed, so that waitForClose() returns.                            *)
(***************************************************************************)
C32_AbnormalExitIsReported ==
  [][(/\ monitor.pc = "waiting"
      /\ monitor'.pc # "waiting"
      /\ ~monitor.aborted
      /\ last.ev = "error")
     => monitor'.logged /\ monitor'.pc = "thrown"]_vars

(***************************************************************************)
(* C33.  Every new_message notification the client hands to the monitor    *)
(* goes to the runtime, also one whose sender is empty.                    *)
(***************************************************************************)
C33_EveryNewMessageIsRouted ==
  monitor.note.method = "new_message" => monitor.routed

(***************************************************************************)
(* C34.  A notification goes to the runtime only as dmPolicy allows: under *)
(* "allowlist" only for a chat name in allowFrom, under "disabled" never.  *)
(***************************************************************************)
C34_RoutedOnlyAsPolicyAllows ==
  monitor.routed =>
    /\ monitor.dmPolicy # "disabled"
    /\ monitor.dmPolicy = "allowlist"
         => Trim(monitor.note.chatName) \in monitor.allowFrom

(***************************************************************************)
(* C35.  resolveKakaoTalkAccount(...).enabled is true exactly when neither *)
(* the channel's enabled nor the account's enabled is false, and           *)
(* listEnabledKakaoTalkAccounts returns exactly the accounts for which     *)
(* that holds, in sorted order of their ids: the configured accounts, or   *)
(* the account "default" when none is configured.                          *)
(***************************************************************************)
\* the ids of the accounts of a configuration
Configured(cfg) ==
  IF cfg.hasAccounts
  THEN {cfg.keys[i] : i \in 1..Len(cfg.keys)} \ {""}
  ELSE {}

\* neither flag is false
BothNotFalse(cfg, id) ==
  /\ cfg.enabled # "false"
  /\ id \in Configured(cfg) => cfg.flag[id] # "false"

\* the accounts the list is about
Listed(cfg) ==
  IF Configured(cfg) = {} THEN {DEFAULT_ACCOUNT_ID} ELSE Configured(cfg)

C35_EnabledIffBothNotFalse ==
  LET cfg == accountCall.cfg
      ids == accountCall.ids
  IN /\ accountCall.op = "resolve" =>
          accountCall.enabled = BothNotFalse(cfg, ids[1])
     /\ accountCall.op = "list_enabled" =>
          /\ {ids[i] : i \in 1..Len(ids)}
               = {id \in Listed(cfg) : BothNotFalse(cfg, id)}
          /\ \A i \in 1..Len(ids), j \in 1..Len(ids) :
               i < j => ids[i] # ids[j] /\ LocaleBefore(ids[i], ids[j])

\* two accounts configured out of order, one switched off, are listed
C35_Witness ==
  /\ accountCall.op = "list_enabled"
  /\ accountCall.cfg.keys = <<"b", "a">>
  /\ accountCall.cfg.flag["b"] = "true"
  /\ accountCall.cfg.flag["a"] = "absent"
  /\ accountCall.cfg.enabled = "true"
  /\ accountCall.ids = <<"a", "b">>

(***************************************************************************)
(* C36.  The ids of the request() calls of a client increase strictly in   *)
(* call order: a request takes an id above every id taken before, so no    *)
(* two requests share an id and no pending entry is overwritten.           *)
(***************************************************************************)
C36_IdsStrictlyIncrease ==
  /\ [](\A k \in Ids : future[k] # "unsent" <=> k < nextId)
  /\ [](\A k \in DOMAIN pending : k < nextId)
  /\ [][\A k \in Ids :
          (future'[k] = "unsettled" /\ future[k] # "unsettled")
          => /\ future[k] = "unsent"
             /\ k \notin DOMAIN pending
             /\ \A j \in Ids : future[j] # "unsent" => j < k
             /\ nextId' > k]_vars

\* the first request was answered and a second one, with the next id, is
\* pending
C36_Witness ==
  /\ nextId > 2
  /\ future[1] = "resolved"
  /\ future[2] = "unsettled"
  /\ DOMAIN pending = {2}

(***************************************************************************)
(* C37.  parseMessageRow for a row of three or more texts: the sender is   *)
(* the first text; the time is the last text after the first that looks    *)
(* like a time, empty when there is none; the message text joins with      *)
(* newlines exactly the texts after the first and before that time text,   *)
(* or all texts after the first when no text looks like a time.            *)
(***************************************************************************)
AsClaimed(texts, msg) ==
  LET n == Len(texts)
      times == {i \in 2..n : LooksLikeTime(texts[i])}
      t == IF times = {} THEN n + 1
           ELSE CHOOSE i \in times : \A j \in times : j <= i
  IN /\ msg.sender = texts[1]
     /\ msg.time = IF times = {} THEN <<>> ELSE texts[t]
     /\ msg.text = Joined(SubSeq(texts, 2, t - 1))

C37_ThreeOrMoreTexts ==
  (/\ lastCall.op = "read_messages"
   /\ opResult.ok
   /\ ~lastCall.text.since.some
   /\ screen.depth = "table")
  => LET full == RowsWithTexts(screen.rows) IN
     /\ Len(opValue) = Len(full)
     /\ \A i \in 1..Len(full) :
          Len(full[i]) >= 3 => AsClaimed(full[i], opValue[i])

(***************************************************************************)
(* C38.  The dispatch loop handles one line at a time: it reads a line     *)
(* only when every non-blank line read before has its response written,    *)
(* and the response it writes is the one to the line it read last; so the  *)
(* responses leave in the order the requests were read.                    *)
(***************************************************************************)
C38_OneRequestAtATime ==
  /\ [](dpc = "write" => nonBlank = responses + 1)
  /\ [](dpc # "write" => nonBlank = responses)
  /\ [](dpc = "write" => dresp = Reply(lastIn, lastOutcome))
  /\ [][linesRead' # linesRead
        => /\ dpc = "read"
           /\ nonBlank = responses
           /\ linesRead' = linesRead + 1]_vars
  /\ [][responses' # responses
        => /\ responses' = responses + 1
           /\ dpc = "write" /\ dpc' = "read"
           /\ dresp' = dresp
           /\ lastIn' = lastIn]_vars

\* two requests were read and answered, a notification having been written
\* in between, and a third line is being answered
C38_Witness ==
  /\ responses = 2
  /\ emitted > 0
  /\ dpc = "write"
  /\ lastIn.kind = "object"

(***************************************************************************)
(* C39.  The exit path rejects a request only when the child it was        *)
(* written to has exited: a request just written to the child the client   *)
(* holds is not rejected by an error or close event that leaves this       *)
(* child running, such as the event of a child given up by stop().         *)
(***************************************************************************)
C39_ExitPathRejectsOwnRequestsOnly ==
  [][(/\ last.ev = "request"
      /\ future[last.key] = "unsettled"
      /\ child # 0
      /\ procState'[child] = "running")
     => future'[last.key] # "exit"]_vars

(***************************************************************************)
(* C40.  A request() made after the child has exited by itself, stop() not *)
(* having been called, is rejected whatever its timeoutMs, 0 included, and *)
(* its pending entry does not stay in the table.                           *)
(***************************************************************************)
C40_RequestAfterExitIsRejected ==
  \A k \in Ids :
    (/\ last.ev = "request" /\ last.key = k
     /\ child # 0
     /\ procState[child] \in {"exited", "closed"})
    ~> (/\ future[k] \notin {"unsettled", "resolved"}
        /\ k \notin DOMAIN pending)
====
